---- MODULE Spec2Model ----
(***************************************************************************)
(* Model of the front end of clara-lang: the lexer (src/src/lexer.rs) and  *)
(* the recursive-descent parser (src/src/parser.rs).                       *)
(*                                                                         *)
(* SpecLex runs lex one loop iteration per step over a bounded set of     *)
(* source strings.  Spec runs parse_program one iteration of its item     *)
(* loop per step over a bounded set of token sequences; the functions an   *)
(* iteration calls are operators that thread the cursor through a context  *)
(* record, as the code threads `idx: &mut usize`.                          *)
(***************************************************************************)
EXTENDS Integers, Sequences, FiniteSets, TLC

VARIABLES
    \* lex (src/src/lexer.rs)
    source,       \* the input bytes
    lex_idx,      \* `idx`, the byte cursor
    lex_tokens,   \* `tokens`
    lex_errors,   \* `errors`
    lex_pc,       \* "scan" (at the head of the loop), "returned", "panicked", "idle"
    \* parse_program (src/src/parser.rs)
    tokens,       \* the token slice
    idx,          \* `*idx`, the cursor (0-based, as in the code)
    errors,       \* `errors` of parse_program
    program,      \* `program`
    pc,           \* "loop" (at the head of the while), "returned", "idle"
    recorded,     \* history: every ParseError pushed to any vector, in push order
    panicked,     \* history: an indexing `tokens[i]` or an unwrap failed
    stalled,      \* history: a loop iteration continued without advancing the cursor
    eoi,          \* history: an item parse returned None
    built         \* history: every expression node built, with the tokens it was parsed from

lexvars == <<source, lex_idx, lex_tokens, lex_errors, lex_pc>>
parsevars == <<tokens, idx, errors, program, pc, recorded, panicked, stalled, eoi, built>>
vars == <<source, lex_idx, lex_tokens, lex_errors, lex_pc,
          tokens, idx, errors, program, pc, recorded, panicked, stalled, eoi, built>>

----------------------------------------------------------------------------
(* Sequences *)

Last(s) == s[Len(s)]

RECURSIVE Concat(_)
Concat(ss) == IF ss = <<>> THEN <<>> ELSE Head(ss) \o Concat(Tail(ss))

SeqsUpTo(S, n) == UNION {[1..k -> S] : k \in 0..n}

----------------------------------------------------------------------------
(* Spans.  The lexer of src/ builds Span::new(start, len).                 *)

LexSpan(start, len) == [start |-> start, len |-> len]

----------------------------------------------------------------------------
(* Bytes: u8 values.  The classification functions are those of core.      *)

IsAsciiWhitespace(b) == b \in {9, 10, 12, 13, 32}
IsAsciiAlphabetic(b) == b \in (65..90) \cup (97..122)
IsAsciiDigit(b) == b \in 48..57

\* source[i] for the 0-based i of the code
ByteAt(src, i) == src[i + 1]
\* &source[a..b]
Slice(src, a, b) == SubSeq(src, a + 1, b)

\* `while idx < source.len() && source[idx].is_ascii_whitespace() { idx += 1; }`
RECURSIVE ScanWhitespace(_, _)
ScanWhitespace(src, i) ==
    IF i < Len(src) /\ IsAsciiWhitespace(ByteAt(src, i)) THEN ScanWhitespace(src, i + 1) ELSE i

\* `while idx < source.len() && source[idx].is_ascii_alphabetic() { idx += 1; }`
RECURSIVE ScanAlphabetic(_, _)
ScanAlphabetic(src, i) ==
    IF i < Len(src) /\ IsAsciiAlphabetic(ByteAt(src, i)) THEN ScanAlphabetic(src, i + 1) ELSE i

\* `while idx < source.len() && source[idx].is_ascii_digit() { idx += 1; }`
RECURSIVE ScanDigits(_, _)
ScanDigits(src, i) ==
    IF i < Len(src) /\ IsAsciiDigit(ByteAt(src, i)) THEN ScanDigits(src, i + 1) ELSE i

\* `while idx < source.len() && source[idx] != b'"' { idx += 1; }`
RECURSIVE ScanToQuote(_, _)
ScanToQuote(src, i) ==
    IF i < Len(src) /\ ByteAt(src, i) # 34 THEN ScanToQuote(src, i + 1) ELSE i

\* std::str::from_utf8(bytes).is_ok()
RECURSIVE ValidUtf8(_)
ValidUtf8(bs) ==
    IF bs = <<>> THEN TRUE
    ELSE LET b == bs[1]
             need == IF b < 128 THEN 0
                     ELSE IF b \in 194..223 THEN 1
                     ELSE IF b \in 224..239 THEN 2
                     ELSE IF b \in 240..244 THEN 3
                     ELSE 4
         IN  /\ need < 4
             /\ Len(bs) >= 1 + need
             /\ \A k \in 2..(1 + need) : bs[k] \in 128..191
             /\ ValidUtf8(SubSeq(bs, 2 + need, Len(bs)))

I32Max == 2147483647

\* str::parse::<i32>() on a non-empty run of ASCII digits: each digit is folded in with
\* checked_mul(10) and checked_add(digit); ok is FALSE when one of them overflows.
RECURSIVE ParseDigits(_, _)
ParseDigits(digits, acc) ==
    IF digits = <<>> THEN [ok |-> TRUE, value |-> acc]
    ELSE LET digit == digits[1] - 48
         IN  IF acc > I32Max \div 10 THEN [ok |-> FALSE, value |-> 0]            \* checked_mul
             ELSE IF acc * 10 > I32Max - digit THEN [ok |-> FALSE, value |-> 0]   \* checked_add
             ELSE ParseDigits(Tail(digits), acc * 10 + digit)

ParseI32(digits) == ParseDigits(digits, 0)

----------------------------------------------------------------------------
(* TokenKind, Token and LexError of src/src/lexer.rs *)

LexToken(kind, start, len) == [kind |-> kind, start |-> start, len |-> len]

KwFn == <<102, 110>>
KwExtern == <<101, 120, 116, 101, 114, 110>>

\* the `match name` of the identifier branch
IdentKind(name) ==
    IF name = KwFn THEN [tag |-> "Fn"]
    ELSE IF name = KwExtern THEN [tag |-> "Extern"]
    ELSE [tag |-> "Ident", name |-> name]

\* the `match source[idx]` of the punctuation branch
PunctKind(b) ==
    CASE b = 40 -> [tag |-> "OParen"]
      [] b = 41 -> [tag |-> "CParen"]
      [] b = 123 -> [tag |-> "OBrace"]
      [] b = 125 -> [tag |-> "CBrace"]
      [] b = 59 -> [tag |-> "SemiColon"]
      [] b = 44 -> [tag |-> "Comma"]
      [] b = 58 -> [tag |-> "Colon"]
      [] OTHER -> [tag |-> "Unknown"]

\* variant: the span taken after the cursor moved on
UnknownTokenErrorNext(b, span) ==
    [tag |-> "UnknownToken", char |-> b, span |-> [start |-> span.start + 1, len |-> span.len]]
UnknownTokenError(b, span) == [tag |-> "UnknownToken", char |-> b, span |-> span]
UnterminatedStringError(span) == [tag |-> "UnterminatedString", span |-> span]

----------------------------------------------------------------------------
(* lex: one step is one iteration of its `loop` *)

\* variant: an `if` for the `while`, one whitespace byte skipped at most
SkipWsOnce(src, i) == IF i < Len(src) /\ IsAsciiWhitespace(ByteAt(src, i)) THEN i + 1 ELSE i

\* the cursor after the whitespace-skipping while at the head of the loop
SkipWs(src, i) == ScanWhitespace(src, i)

LexAt == SkipWs(source, lex_idx)
LexByte == ByteAt(source, LexAt)

\* `if idx == source.len() { break; }` and the return of (tokens, errors)
LexBreak ==
    /\ lex_pc = "scan"
    /\ LexAt = Len(source)
    /\ lex_idx' = LexAt
    /\ lex_pc' = "returned"
    /\ UNCHANGED <<source, lex_tokens, lex_errors>>

\* Identifiers & keywords
LexIdentifier ==
    /\ lex_pc = "scan"
    /\ LexAt < Len(source)
    /\ IsAsciiAlphabetic(LexByte)
    /\ LET start == LexAt
           end == ScanAlphabetic(source, start)
           name == Slice(source, start, end)
       IN  /\ lex_idx' = end
           /\ IF ValidUtf8(name)
              THEN /\ lex_tokens' = Append(lex_tokens, LexToken(IdentKind(name), start, end - start))
                   /\ lex_pc' = "scan"
              ELSE /\ lex_tokens' = lex_tokens
                   /\ lex_pc' = "panicked"
    /\ UNCHANGED <<source, lex_errors>>

\* String literals
LexString ==
    /\ lex_pc = "scan"
    /\ LexAt < Len(source)
    /\ ~IsAsciiAlphabetic(LexByte)
    /\ LexByte = 34
    /\ LET start == LexAt
           close == ScanToQuote(source, start + 1)
           unterminated == close = Len(source)
           end == IF unterminated THEN close ELSE close + 1
           \* &source[(start + 1)..(idx - 1)] panics when start + 1 > idx - 1
           sliceOk == start + 1 <= end - 1
           string == Slice(source, start + 1, end - 1)
       IN  /\ lex_idx' = end
           /\ lex_errors' = IF unterminated
                            THEN Append(lex_errors, UnterminatedStringError(LexSpan(start, end - start)))
                            ELSE lex_errors
           /\ IF sliceOk /\ ValidUtf8(string)
              THEN /\ lex_tokens' = Append(lex_tokens,
                          LexToken([tag |-> "StringLiteral", string |-> string], start, end - start))
                   /\ lex_pc' = "scan"
              ELSE /\ lex_tokens' = lex_tokens
                   /\ lex_pc' = "panicked"
    /\ UNCHANGED source

\* Integer literals
LexInteger ==
    /\ lex_pc = "scan"
    /\ LexAt < Len(source)
    /\ ~IsAsciiAlphabetic(LexByte)
    /\ LexByte # 34
    /\ IsAsciiDigit(LexByte)
    /\ LET start == LexAt
           end == ScanDigits(source, start)
           parsed == ParseI32(Slice(source, start, end))
       IN  /\ lex_idx' = end
           /\ IF parsed.ok
              THEN /\ lex_tokens' = Append(lex_tokens,
                          LexToken([tag |-> "IntLiteral", value |-> parsed.value], start, end - start))
                   /\ lex_pc' = "scan"
              ELSE /\ lex_tokens' = lex_tokens
                   /\ lex_pc' = "panicked"
    /\ UNCHANGED <<source, lex_errors>>

\* the final `match source[idx]` and `idx += 1`
LexPunctuation ==
    /\ lex_pc = "scan"
    /\ LexAt < Len(source)
    /\ ~IsAsciiAlphabetic(LexByte)
    /\ LexByte # 34
    /\ ~IsAsciiDigit(LexByte)
    /\ LET at == LexAt
           kind == PunctKind(LexByte)
       IN  /\ lex_tokens' = Append(lex_tokens, LexToken(kind, at, 1))
           /\ lex_errors' = IF kind.tag = "Unknown"
                            THEN Append(lex_errors, UnknownTokenError(LexByte, LexSpan(at, 1)))
                            ELSE lex_errors
           /\ lex_idx' = at + 1
           /\ lex_pc' = "scan"
    /\ UNCHANGED source

----------------------------------------------------------------------------
(* The parser's tokens: Token { kind, span } with Span { source, start,    *)
(* len } (crate::span, not under src/).                                    *)

Span(src, start, len) == [source |-> src, start |-> start, len |-> len]

\* Span::to: the smallest span covering both
SpanTo(a, b) ==
    LET lo == IF a.start <= b.start THEN a.start ELSE b.start
        ea == a.start + a.len
        eb == b.start + b.len
        hi == IF ea >= eb THEN ea ELSE eb
    IN  Span(a.source, lo, hi - lo)

\* Type::Unit, Type::from_string(name), Type::Pointer(inner, is_mut) of crate::typechecker
TypeUnit == [tag |-> "Unit"]
TypeFromString(name) == [tag |-> "Named", name |-> name]
TypePointer(inner, is_mut) == [tag |-> "Pointer", inner |-> inner, is_mut |-> is_mut]

\* ParseError
UnexpectedToken(span) == [tag |-> "UnexpectedToken", span |-> span]
ExpectedIdentifier(span) == [tag |-> "ExpectedIdentifier", span |-> span]
ExpectedToken(kind, span) == [tag |-> "ExpectedToken", kind |-> kind, span |-> span]
UnexpectedEndOfInput(span) == [tag |-> "UnexpectedEndOfInput", span |-> span]

\* Restriction
RestrictionNone == "None"
NoStructLiteral == "NoStructLiteral"

----------------------------------------------------------------------------
(* The cursor.  A context c carries `*idx` and the history a call leaves   *)
(* behind whether it returns Some or None: the errors pushed so far (rec), *)
(* whether an indexing panicked, whether a loop iteration failed to        *)
(* advance, and the expressions built so far with the tokens they were     *)
(* parsed from (exprs).  A result is [ok, c, errs, val]: ok = FALSE is     *)
(* None, errs is the callee's own `errors` vector.                         *)

Context(i) == [idx |-> i, rec |-> <<>>, panic |-> FALSE, stall |-> FALSE, exprs |-> <<>>]

NoVal == [tag |-> "NoVal"]
Ok(c, errs, val) == [ok |-> TRUE, c |-> c, errs |-> errs, val |-> val]
Fail(c) == [ok |-> FALSE, c |-> c, errs |-> <<>>, val |-> NoVal]
Stall(c) == Fail([c EXCEPT !.stall = TRUE])
Panic(c) == Fail([c EXCEPT !.panic = TRUE])

\* tokens.get(i).is_some()
Has(toks, i) == i >= 0 /\ i < Len(toks)
\* the token tokens.get(i) holds
Tok(toks, i) == toks[i + 1]
\* matches!(tokens.get(i), Some(Token { kind: <kind>, .. }))
Is(toks, i, kind) == Has(toks, i) /\ Tok(toks, i).kind.tag = kind

\* `*idx += 1`
Advance(c) == [c EXCEPT !.idx = @ + 1]

\* errors.push(e), for the `errors` vector of the running function
Push(c, errs, e) == [c |-> [c EXCEPT !.rec = Append(@, e)], errs |-> Append(errs, e)]

\* an expression node was built from tokens lo .. c.idx - 1
Built(c, lo, expr) == [c EXCEPT !.exprs = Append(@, [expr |-> expr, lo |-> lo, hi |-> c.idx])]

\* variant: the token of another kind is reported and stepped over
ExpectAdvancing(toks, c, errs, kind) ==
    IF ~Has(toks, c.idx) THEN [ok |-> FALSE, c |-> c, errs |-> errs]
    ELSE IF Tok(toks, c.idx).kind.tag = kind
         THEN [ok |-> TRUE, c |-> Advance(c), errs |-> errs]
         ELSE LET p == Push(c, errs, ExpectedToken(kind, Tok(toks, c.idx).span))
              IN  [ok |-> TRUE, c |-> Advance(p.c), errs |-> p.errs]

\* expect!(errors, tokens, idx, kind): [ok, c, errs], ok = FALSE when `?` returns None
Expect(toks, c, errs, kind) ==
    IF ~Has(toks, c.idx) THEN [ok |-> FALSE, c |-> c, errs |-> errs]
    ELSE IF Tok(toks, c.idx).kind.tag = kind
         THEN [ok |-> TRUE, c |-> Advance(c), errs |-> errs]
         ELSE LET p == Push(c, errs, ExpectedToken(kind, Tok(toks, c.idx).span))
              IN  [ok |-> TRUE, c |-> p.c, errs |-> p.errs]

\* variant: the token is stepped over without a report
RecoverSkipSilent(toks, c, errs, kind) == [c |-> Advance(c), errs |-> errs]

\* one iteration of the while of recover_at_token!: report the token and step over it
RecoverSkip(toks, c, errs, kind) ==
    LET p == Push(c, errs, ExpectedToken(kind, Tok(toks, c.idx).span))
    IN  [c |-> Advance(p.c), errs |-> p.errs]

\* recover_at_token!(errors, tokens, idx, kind)
RECURSIVE RecoverAtToken(_, _, _, _)
RecoverAtToken(toks, c, errs, kind) ==
    IF Has(toks, c.idx) /\ Tok(toks, c.idx).kind.tag # kind
    THEN LET s == RecoverSkip(toks, c, errs, kind)
         IN  IF s.c.idx > c.idx
             THEN RecoverAtToken(toks, s.c, s.errs, kind)
             ELSE [ok |-> FALSE, c |-> [s.c EXCEPT !.stall = TRUE], errs |-> s.errs]
    ELSE Expect(toks, c, errs, kind)

\* tokens[i].span, an indexing that panics out of bounds
IndexOk(toks, i) == i >= 0 /\ i < Len(toks)

\* variant: the token at the cursor instead of the one before it
PrevIndexAtCursor(c) == c.idx
\* the `tokens[*idx - 1]` of parse_array_literal and parse_struct_literal
PrevIndex(c) == c.idx - 1

\* variant: the first token instead of the last
LastIndexFirst(toks) == 0
\* tokens.last(): the index of the last token, -1 when there is none (unwrap panics)
LastIndex(toks) == Len(toks) - 1

----------------------------------------------------------------------------
(* Names, types, parameters *)

\* `let v = f(..)?;`: None is handed on, Some goes to the rest of the function
Bind(r, rest(_)) == IF r.ok THEN rest(r) ELSE Fail(r.c)

parse_name(toks, c) ==
    IF ~Has(toks, c.idx) THEN Fail(c)
    ELSE LET tok == Tok(toks, c.idx)
         IN  IF tok.kind.tag = "Ident"
             THEN Ok(Advance(c), <<>>, [name |-> tok.kind.name, span |-> tok.span])
             ELSE LET p == Push(c, <<>>, ExpectedIdentifier(tok.span))
                  IN  Ok(p.c, p.errs, [name |-> "", span |-> tok.span])

\* the identifier of parse_type, once `->` and `mut` are consumed
TypeName(toks, c, is_pointer, is_mut_pointer) ==
    IF ~Has(toks, c.idx) THEN Fail(c) ELSE
    LET tok == Tok(toks, c.idx)
    IN  IF tok.kind.tag = "Ident"
        THEN Ok(Advance(c), <<>>,
                [ttype |-> IF is_pointer
                           THEN TypePointer(TypeFromString(tok.kind.name), is_mut_pointer)
                           ELSE TypeFromString(tok.kind.name),
                 span |-> tok.span])
        ELSE LET p == Push(c, <<>>, ExpectedIdentifier(tok.span))
             IN  Ok(p.c, p.errs,
                    [ttype |-> IF is_pointer THEN TypePointer(TypeUnit, is_mut_pointer)
                               ELSE TypeUnit,
                     span |-> tok.span])

parse_type(toks, c) ==
    IF ~Has(toks, c.idx) THEN Fail(c)
    ELSE IF Tok(toks, c.idx).kind.tag # "RightArrow" THEN TypeName(toks, c, FALSE, FALSE)
    ELSE IF ~Has(toks, c.idx + 1) THEN Fail(Advance(c))
    ELSE IF Tok(toks, c.idx + 1).kind.tag = "Mut"
         THEN TypeName(toks, Advance(Advance(c)), TRUE, TRUE)
         ELSE TypeName(toks, Advance(c), TRUE, FALSE)

parse_parameter(toks, c0) ==
    Bind(parse_name(toks, c0), LAMBDA n :
    Bind(Expect(toks, n.c, n.errs, "Colon"), LAMBDA x :
    Bind(parse_type(toks, x.c), LAMBDA t :
    Ok(t.c, x.errs \o t.errs,
       [name |-> n.val.name, name_span |-> n.val.span,
        ttype |-> t.val.ttype, type_span |-> t.val.span]))))

\* variant: a missing comma does not end the loop
AfterElementLenient(toks, c) ==
    IF ~Has(toks, c.idx) THEN [ok |-> FALSE, c |-> c, more |-> FALSE]
    ELSE IF Tok(toks, c.idx).kind.tag = "Comma"
         THEN [ok |-> TRUE, c |-> Advance(c), more |-> TRUE]
         ELSE [ok |-> TRUE, c |-> c, more |-> TRUE]

\* after a parameter r: `if matches!(tokens.get(*idx)?, Comma) { *idx += 1 } else { break }`;
\* [ok, c, more]
AfterElement(toks, c) ==
    IF ~Has(toks, c.idx) THEN [ok |-> FALSE, c |-> c, more |-> FALSE]
    ELSE IF Tok(toks, c.idx).kind.tag = "Comma"
         THEN [ok |-> TRUE, c |-> Advance(c), more |-> TRUE]
         ELSE [ok |-> TRUE, c |-> c, more |-> FALSE]

\* The parameter loop of parse_function; parse_extern_function and parse_struct (with
\* `}` for `)`) hold the same loop.  val is the vector of parameters.
RECURSIVE ParameterLoop(_, _, _, _, _)
ParameterLoop(toks, c, errs, acc, close) ==
    IF ~(Has(toks, c.idx) /\ Tok(toks, c.idx).kind.tag # close) THEN Ok(c, errs, acc) ELSE
    Bind(parse_parameter(toks, c), LAMBDA r :
    Bind(AfterElement(toks, r.c), LAMBDA a :
    IF ~a.more THEN Ok(a.c, errs \o r.errs, Append(acc, r.val))
    ELSE IF a.c.idx > c.idx
         THEN ParameterLoop(toks, a.c, errs \o r.errs, Append(acc, r.val), close)
         ELSE Stall(a.c)))

\* the optional `: Type` after the parameter list, in parse_function and parse_extern_function
ReturnType(toks, c, errs) ==
    IF Is(toks, c.idx, "Colon")
    THEN Bind(Expect(toks, c, errs, "Colon"), LAMBDA x :
         Bind(parse_type(toks, x.c), LAMBDA t :
         Ok(t.c, x.errs \o t.errs, [ttype |-> t.val.ttype, span |-> t.val.span])))
    ELSE Ok(c, errs, [ttype |-> TypeUnit, span |-> Span(0, 0, 0)])

----------------------------------------------------------------------------
(* Items without a body *)

\* the (name, type) pairs parse_struct keeps of its fields
StructFields(params) == [k \in DOMAIN params |-> [name |-> params[k].name, ttype |-> params[k].ttype]]

parse_struct(toks, c0) ==
    Bind(Expect(toks, c0, <<>>, "Struct"), LAMBDA x1 :
    Bind(parse_name(toks, x1.c), LAMBDA n :
    Bind(Expect(toks, n.c, x1.errs \o n.errs, "OBrace"), LAMBDA x2 :
    Bind(ParameterLoop(toks, x2.c, x2.errs, <<>>, "CBrace"), LAMBDA l :
    Bind(RecoverAtToken(toks, l.c, l.errs, "CBrace"), LAMBDA x3 :
    Ok(x3.c, x3.errs,
       [tag |-> "Transparent", name |-> n.val.name, span |-> n.val.span,
        fields |-> StructFields(l.val)]))))))

parse_opaque_struct(toks, c0) ==
    Bind(Expect(toks, c0, <<>>, "Opaque"), LAMBDA x1 :
    Bind(Expect(toks, x1.c, x1.errs, "Struct"), LAMBDA x2 :
    Bind(parse_name(toks, x2.c), LAMBDA n :
    Bind(Expect(toks, n.c, x2.errs \o n.errs, "SemiColon"), LAMBDA x3 :
    Ok(x3.c, x3.errs, [tag |-> "Opaque", name |-> n.val.name, span |-> n.val.span])))))

parse_extern_function(toks, c0) ==
    \* Advance: Consume `extern` keyword
    Bind(Expect(toks, Advance(c0), <<>>, "Fn"), LAMBDA x1 :
    Bind(parse_name(toks, x1.c), LAMBDA n :
    Bind(Expect(toks, n.c, x1.errs \o n.errs, "OParen"), LAMBDA x2 :
    Bind(ParameterLoop(toks, x2.c, x2.errs, <<>>, "CParen"), LAMBDA l :
    Bind(Expect(toks, l.c, l.errs, "CParen"), LAMBDA x3 :
    Bind(ReturnType(toks, x3.c, x3.errs), LAMBDA t :
    Bind(RecoverAtToken(toks, t.c, t.errs, "SemiColon"), LAMBDA x4 :
    Ok(x4.c, x4.errs,
       [name |-> n.val.name, name_span |-> n.val.span,
        parameters |-> l.val,
        return_type |-> t.val.ttype,
        return_type_span |-> t.val.span]))))))))

----------------------------------------------------------------------------
(* Expressions.  An expression result also carries lo, the index of the    *)
(* first token of the expression.                                          *)

OkE(c, errs, val, lo) == [ok |-> TRUE, c |-> c, errs |-> errs, val |-> val, lo |-> lo]

\* an expression node built from the tokens lo .. c.idx - 1: the result, and the node
\* added to the history
Expr(c, errs, e, lo) == OkE(Built(c, lo, e), errs, e, lo)

\* impl Spanned for ParsedExpression
RECURSIVE ExprSpan(_)
ExprSpan(e) ==
    CASE e.tag = "Literal" -> e.literal.span
      [] e.tag = "FunctionCall" -> e.call.span
      [] e.tag = "Variable" -> e.span
      [] e.tag = "CompareOp" -> SpanTo(ExprSpan(e.lhs), ExprSpan(e.rhs))
      [] e.tag = "MathOp" -> SpanTo(ExprSpan(e.lhs), ExprSpan(e.rhs))
      [] e.tag = "FieldAccess" -> e.span
      [] e.tag = "ArrayIndex" -> SpanTo(ExprSpan(e.array), ExprSpan(e.index))
      [] e.tag = "Assignment" -> SpanTo(ExprSpan(e.lhs), ExprSpan(e.rhs))
      [] e.tag = "PointerTo" -> SpanTo(e.pointer_span, ExprSpan(e.inner))
      [] e.tag = "Deref" -> SpanTo(e.star_span, ExprSpan(e.inner))

CompareOperation(kind) ==
    CASE kind = "EqualEqual" -> "Equality"
      [] kind = "GreaterThan" -> "GreaterThan"
      [] kind = "GreaterThanEqual" -> "GreaterThanEqual"
      [] kind = "LessThan" -> "LessThan"
      [] kind = "LessThanEqual" -> "LessThanEqual"

MathOperation(kind) ==
    CASE kind = "Plus" -> "Addition"
      [] kind = "Minus" -> "Subtraction"
      [] kind = "Star" -> "Multiplication"
      [] kind = "Slash" -> "Division"

CompareKinds == {"EqualEqual", "GreaterThan", "GreaterThanEqual", "LessThan", "LessThanEqual"}

\* tokens.get(i) is a token of one of the kinds
IsOneOf(toks, i, kinds) == Has(toks, i) /\ Tok(toks, i).kind.tag \in kinds

RECURSIVE parse_expression(_, _, _)
RECURSIVE parse_assignment(_, _, _)
RECURSIVE parse_math(_, _, _)
RECURSIVE parse_factor(_, _, _)
RECURSIVE parse_term(_, _, _)
RECURSIVE TermLoop(_, _, _, _)
RECURSIVE parse_array_literal(_, _)
RECURSIVE parse_struct_literal(_, _)
RECURSIVE parse_function_call(_, _)
RECURSIVE ElementLoop(_, _, _, _, _)
RECURSIVE FieldLoop(_, _, _, _)

\* variant: the right operand parsed at the next-tighter level
parse_expression_flat(toks, c0, restriction) ==
    Bind(parse_assignment(toks, c0, restriction), LAMBDA l :
    IF IsOneOf(toks, l.c.idx, CompareKinds)
    THEN Bind(parse_assignment(toks, Advance(l.c), restriction), LAMBDA r :
         Expr(r.c, l.errs \o r.errs,
              [tag |-> "CompareOp", lhs |-> l.val, rhs |-> r.val,
               op |-> CompareOperation(Tok(toks, l.c.idx).kind.tag)],
              l.lo))
    ELSE l)

parse_expression(toks, c0, restriction) ==
    Bind(parse_assignment(toks, c0, restriction), LAMBDA l :
    IF IsOneOf(toks, l.c.idx, CompareKinds)
    THEN \* Advance: Consume operator token
         Bind(parse_expression(toks, Advance(l.c), restriction), LAMBDA r :
         Expr(r.c, l.errs \o r.errs,
              [tag |-> "CompareOp", lhs |-> l.val, rhs |-> r.val,
               op |-> CompareOperation(Tok(toks, l.c.idx).kind.tag)],
              l.lo))
    ELSE l)

\* variant: the right side parsed as a whole expression
parse_assignment_deep(toks, c0, restriction) ==
    Bind(parse_math(toks, c0, restriction), LAMBDA l :
    IF Is(toks, l.c.idx, "Equal")
    THEN Bind(parse_expression(toks, Advance(l.c), restriction), LAMBDA r :
         Expr(r.c, l.errs \o r.errs,
              [tag |-> "Assignment", lhs |-> l.val, rhs |-> r.val],
              l.lo))
    ELSE l)

parse_assignment(toks, c0, restriction) ==
    Bind(parse_math(toks, c0, restriction), LAMBDA l :
    IF Is(toks, l.c.idx, "Equal")
    THEN \* Advance: Consume operator token
         Bind(parse_math(toks, Advance(l.c), restriction), LAMBDA r :
         Expr(r.c, l.errs \o r.errs,
              [tag |-> "Assignment", lhs |-> l.val, rhs |-> r.val],
              l.lo))
    ELSE l)

\* variant: the right operand parsed at the next-tighter level
parse_math_flat(toks, c0, restriction) ==
    Bind(parse_factor(toks, c0, restriction), LAMBDA l :
    IF IsOneOf(toks, l.c.idx, {"Plus", "Minus"})
    THEN Bind(parse_factor(toks, Advance(l.c), restriction), LAMBDA r :
         Expr(r.c, l.errs \o r.errs,
              [tag |-> "MathOp", lhs |-> l.val, rhs |-> r.val,
               op |-> MathOperation(Tok(toks, l.c.idx).kind.tag)],
              l.lo))
    ELSE l)

parse_math(toks, c0, restriction) ==
    Bind(parse_factor(toks, c0, restriction), LAMBDA l :
    IF IsOneOf(toks, l.c.idx, {"Plus", "Minus"})
    THEN \* Advance: Consume operator token
         Bind(parse_math(toks, Advance(l.c), restriction), LAMBDA r :
         Expr(r.c, l.errs \o r.errs,
              [tag |-> "MathOp", lhs |-> l.val, rhs |-> r.val,
               op |-> MathOperation(Tok(toks, l.c.idx).kind.tag)],
              l.lo))
    ELSE l)

parse_factor(toks, c0, restriction) ==
    Bind(parse_term(toks, c0, restriction), LAMBDA l :
    IF IsOneOf(toks, l.c.idx, {"Star", "Slash"})
    THEN \* Advance: Consume operator token
         Bind(parse_factor(toks, Advance(l.c), restriction), LAMBDA r :
         Expr(r.c, l.errs \o r.errs,
              [tag |-> "MathOp", lhs |-> l.val, rhs |-> r.val,
               op |-> MathOperation(Tok(toks, l.c.idx).kind.tag)],
              l.lo))
    ELSE l)

\* variant: the catch-all arm without its `*idx += 1`
TermSkipInPlace(toks, c, errs) ==
    LET p == Push(c, errs, UnexpectedToken(Tok(toks, c.idx).span))
    IN  [ok |-> TRUE, c |-> p.c, errs |-> p.errs]

\* the catch-all arm of parse_term's loop: report the token and step over it
TermSkip(toks, c, errs) ==
    LET p == Push(c, errs, UnexpectedToken(Tok(toks, c.idx).span))
    IN  [ok |-> TRUE, c |-> Advance(p.c), errs |-> p.errs]

\* the errors a Deref or array-literal arm of parse_term's loop hands on: its
\* `let (.., errors) = ..` shadows the vector the loop has pushed to
ShadowedErrors(outer, inner) == inner

\* the `->` arm of parse_term's loop, at the `->` token
PointerToTerm(toks, c, errs, restriction) ==
    IF ~Has(toks, c.idx + 1) THEN Fail(Advance(c))
    ELSE IF Tok(toks, c.idx + 1).kind.tag = "Mut"
    THEN Bind(parse_term(toks, Advance(Advance(c)), restriction), LAMBDA r :
         Expr(r.c, errs \o r.errs,
              [tag |-> "PointerTo",
               pointer_span |-> SpanTo(Tok(toks, c.idx).span, Tok(toks, c.idx + 1).span),
               inner |-> r.val, is_mut |-> TRUE],
              c.idx))
    ELSE Bind(parse_term(toks, Advance(c), restriction), LAMBDA r :
         Expr(r.c, errs \o r.errs,
              [tag |-> "PointerTo", pointer_span |-> Tok(toks, c.idx).span,
               inner |-> r.val, is_mut |-> FALSE],
              c.idx))

\* the identifier arm of parse_term's loop, at the identifier
IdentTerm(toks, c, errs, restriction) ==
    IF Is(toks, c.idx + 1, "OParen")
    THEN Bind(parse_function_call(toks, c), LAMBDA r :
         Expr(r.c, errs \o r.errs, [tag |-> "FunctionCall", call |-> r.val], c.idx))
    ELSE IF Is(toks, c.idx + 1, "OBrace") /\ restriction # NoStructLiteral
    THEN Bind(parse_struct_literal(toks, c), LAMBDA r :
         Expr(r.c, errs \o r.errs,
              [tag |-> "Literal",
               literal |-> [tag |-> "Struct", value |-> r.val, span |-> r.val.span]],
              c.idx))
    ELSE \* Advance: Consume ident token
         Expr(Advance(c), errs,
              [tag |-> "Variable", name |-> Tok(toks, c.idx).kind.name,
               span |-> Tok(toks, c.idx).span],
              c.idx)

\* the string, integer and boolean arms of parse_term's loop
LiteralTerm(toks, c, errs) ==
    LET tok == Tok(toks, c.idx)
        literal == CASE tok.kind.tag = "StringLiteral" ->
                          [tag |-> "String", value |-> tok.kind.string, span |-> tok.span]
                     [] tok.kind.tag = "IntLiteral" ->
                          [tag |-> "Int", value |-> tok.kind.value, span |-> tok.span]
                     [] OTHER ->
                          [tag |-> "Bool", value |-> (tok.kind.tag = "True"), span |-> tok.span]
    IN  Expr(Advance(c), errs, [tag |-> "Literal", literal |-> literal], c.idx)

\* the `loop` of parse_term; errs is the `errors` vector the loop pushes to
TermLoop(toks, c, errs, restriction) ==
    IF ~Has(toks, c.idx) THEN Fail(c) ELSE
    LET k == Tok(toks, c.idx).kind.tag
    IN  CASE k = "RightArrow" -> PointerToTerm(toks, c, errs, restriction)
          [] k = "Star" ->
               \* Advance: Consume `*` token
               Bind(parse_term(toks, Advance(c), restriction), LAMBDA r :
               Expr(r.c, ShadowedErrors(errs, r.errs),
                    [tag |-> "Deref", star_span |-> Tok(toks, c.idx).span, inner |-> r.val],
                    c.idx))
          [] k = "Ident" -> IdentTerm(toks, c, errs, restriction)
          [] k \in {"StringLiteral", "IntLiteral", "True", "False"} -> LiteralTerm(toks, c, errs)
          [] k = "OBracket" ->
               Bind(parse_array_literal(toks, c), LAMBDA r :
               Expr(r.c, ShadowedErrors(errs, r.errs),
                    [tag |-> "Literal",
                     literal |-> [tag |-> "Array", value |-> r.val.array, span |-> r.val.span]],
                    c.idx))
          [] OTHER ->
               Bind(TermSkip(toks, c, errs), LAMBDA s :
               IF s.c.idx > c.idx
               THEN TermLoop(toks, s.c, s.errs, restriction)
               ELSE Stall(s.c))

\* the `.name` that may follow the term t
FieldAccess(toks, t) ==
    IF Is(toks, t.c.idx, "Dot")
    THEN \* Advance: Consume dot token.
         Bind(parse_name(toks, Advance(t.c)), LAMBDA n :
         Expr(n.c, t.errs \o n.errs,
              [tag |-> "FieldAccess", object |-> t.val,
               object_span |-> ExprSpan(t.val),
               field_name |-> n.val.name, field_name_span |-> n.val.span,
               span |-> SpanTo(ExprSpan(t.val), n.val.span)],
              t.lo))
    ELSE t

\* the `[index]` that may follow the term f
ArrayIndex(toks, f, restriction) ==
    IF Is(toks, f.c.idx, "OBracket")
    THEN \* Advance: Consume `[` token
         Bind(parse_expression(toks, Advance(f.c), restriction), LAMBDA i :
         Bind(Expect(toks, i.c, f.errs \o i.errs, "CBracket"), LAMBDA x :
         Expr(x.c, x.errs, [tag |-> "ArrayIndex", index |-> i.val, array |-> f.val], f.lo)))
    ELSE f

parse_term(toks, c0, restriction) ==
    Bind(TermLoop(toks, c0, <<>>, restriction), LAMBDA t :
    Bind(FieldAccess(toks, t), LAMBDA f :
    ArrayIndex(toks, f, restriction)))

\* The element loop of parse_array_literal; the argument loop of parse_function_call
\* (with `)` for `]`) is the same loop.  val is the vector of expressions.
ElementLoop(toks, c, errs, acc, close) ==
    IF ~(Has(toks, c.idx) /\ Tok(toks, c.idx).kind.tag # close) THEN Ok(c, errs, acc) ELSE
    Bind(parse_expression(toks, c, RestrictionNone), LAMBDA r :
    Bind(AfterElement(toks, r.c), LAMBDA a :
    IF ~a.more THEN Ok(a.c, errs \o r.errs, Append(acc, r.val))
    ELSE IF a.c.idx > c.idx
         THEN ElementLoop(toks, a.c, errs \o r.errs, Append(acc, r.val), close)
         ELSE Stall(a.c)))

\* `tokens[*idx - 1].span` after an expect!: [ok, c, errs, span], a panic when the
\* index is out of bounds
PrevSpan(toks, x) ==
    IF IndexOk(toks, PrevIndex(x.c))
    THEN [ok |-> TRUE, c |-> x.c, errs |-> x.errs, span |-> Tok(toks, PrevIndex(x.c)).span]
    ELSE Panic(x.c)

parse_array_literal(toks, c0) ==
    Bind(Expect(toks, c0, <<>>, "OBracket"), LAMBDA x1 :
    Bind(PrevSpan(toks, x1), LAMBDA o_brace :
    Bind(ElementLoop(toks, o_brace.c, o_brace.errs, <<>>, "CBracket"), LAMBDA l :
    Bind(Expect(toks, l.c, l.errs, "CBracket"), LAMBDA x2 :
    Bind(PrevSpan(toks, x2), LAMBDA c_brace :
    Ok(c_brace.c, c_brace.errs,
       [array |-> [elements |-> l.val],
        span |-> SpanTo(o_brace.span, c_brace.span)]))))))

\* the field loop of parse_struct_literal; val is the vector of fields
FieldLoop(toks, c, errs, acc) ==
    IF ~(Has(toks, c.idx) /\ Tok(toks, c.idx).kind.tag # "CBrace") THEN Ok(c, errs, acc) ELSE
    Bind(parse_name(toks, c), LAMBDA n :
    Bind(Expect(toks, n.c, errs \o n.errs, "Colon"), LAMBDA x :
    Bind(parse_expression(toks, x.c, RestrictionNone), LAMBDA v :
    Bind(AfterElement(toks, v.c), LAMBDA a :
    IF ~a.more
    THEN Ok(a.c, x.errs \o v.errs,
            Append(acc, [name |-> n.val.name, name_span |-> n.val.span, value |-> v.val]))
    ELSE IF a.c.idx > c.idx
         THEN FieldLoop(toks, a.c, x.errs \o v.errs,
                        Append(acc, [name |-> n.val.name, name_span |-> n.val.span,
                                     value |-> v.val]))
         ELSE Stall(a.c)))))

parse_struct_literal(toks, c0) ==
    Bind(parse_name(toks, c0), LAMBDA n :
    Bind(Expect(toks, n.c, n.errs, "OBrace"), LAMBDA x1 :
    Bind(FieldLoop(toks, x1.c, x1.errs, <<>>), LAMBDA l :
    Bind(Expect(toks, l.c, l.errs, "CBrace"), LAMBDA x2 :
    Bind(PrevSpan(toks, x2), LAMBDA c_brace :
    Ok(c_brace.c, c_brace.errs,
       [name |-> n.val.name, name_span |-> n.val.span,
        fields |-> l.val,
        span |-> SpanTo(n.val.span, c_brace.span)]))))))

\* `let cparen_span = tokens.get(*idx)?.span;` of parse_function_call
CParenSpan(toks, l) ==
    IF Has(toks, l.c.idx)
    THEN [ok |-> TRUE, c |-> l.c, span |-> Tok(toks, l.c.idx).span]
    ELSE Fail(l.c)

parse_function_call(toks, c0) ==
    Bind(parse_name(toks, c0), LAMBDA n :
    Bind(Expect(toks, n.c, n.errs, "OParen"), LAMBDA x1 :
    Bind(ElementLoop(toks, x1.c, x1.errs, <<>>, "CParen"), LAMBDA l :
    Bind(CParenSpan(toks, l), LAMBDA cparen :
    Bind(Expect(toks, l.c, l.errs, "CParen"), LAMBDA x2 :
    Ok(x2.c, x2.errs,
       [name |-> n.val.name, name_span |-> n.val.span,
        args |-> l.val,
        span |-> SpanTo(n.val.span, cparen.span)]))))))

----------------------------------------------------------------------------
(* Blocks and statements *)

RECURSIVE parse_block(_, _)
RECURSIVE StatementLoop(_, _, _, _)
RECURSIVE parse_statement(_, _)
RECURSIVE parse_for_in_loop(_, _)
RECURSIVE parse_while_loop(_, _)
RECURSIVE parse_if_else(_, _)

\* the statement loop of parse_block; val is the vector of statements
StatementLoop(toks, c, errs, acc) ==
    IF ~(Has(toks, c.idx) /\ Tok(toks, c.idx).kind.tag # "CBrace") THEN Ok(c, errs, acc) ELSE
    Bind(parse_statement(toks, c), LAMBDA r :
    IF r.c.idx > c.idx
    THEN StatementLoop(toks, r.c, errs \o r.errs, Append(acc, r.val))
    ELSE Stall(r.c))

parse_block(toks, c0) ==
    Bind(Expect(toks, c0, <<>>, "OBrace"), LAMBDA x1 :
    Bind(StatementLoop(toks, x1.c, x1.errs, <<>>), LAMBDA l :
    Bind(Expect(toks, l.c, l.errs, "CBrace"), LAMBDA x2 :
    Ok(x2.c, x2.errs, [statements |-> l.val]))))

\* the name of the `let` arm of parse_statement, with c at the token it is read from
LetName(toks, c, is_mut) ==
    IF ~Has(toks, c.idx) THEN Fail(c) ELSE
    LET tok == Tok(toks, c.idx)
    IN  IF tok.kind.tag = "Ident"
        THEN Ok(Advance(c), <<>>, [name |-> tok.kind.name, span |-> tok.span, is_mut |-> is_mut])
        ELSE LET p == Push(c, <<>>, ExpectedIdentifier(tok.span))
             IN  Ok(p.c, p.errs, [name |-> "", span |-> tok.span, is_mut |-> is_mut])

\* `let` and the optional `mut` of the `let` arm, at the `let` token
LetHead(toks, c) ==
    \* Advance: Consume `let` token, Consume `mut` token
    IF ~Has(toks, c.idx + 1) THEN Fail(Advance(c))
    ELSE IF Tok(toks, c.idx + 1).kind.tag = "Mut"
         THEN LetName(toks, Advance(Advance(c)), TRUE)
         ELSE LetName(toks, Advance(c), FALSE)

\* the `let` arm of parse_statement
LetStatement(toks, c0) ==
    Bind(LetHead(toks, c0), LAMBDA n :
    Bind(Expect(toks, n.c, n.errs, "Equal"), LAMBDA x :
    Bind(parse_expression(toks, x.c, RestrictionNone), LAMBDA v :
    Ok(v.c, x.errs \o v.errs,
       [tag |-> "LetAssign", name |-> n.val.name, name_span |-> n.val.span,
        value |-> v.val, is_mut |-> n.val.is_mut]))))

\* the `match` of parse_statement: the statement and its errors
StatementArm(toks, c0) ==
    IF ~Has(toks, c0.idx) THEN Fail(c0) ELSE
    LET k == Tok(toks, c0.idx).kind.tag
    IN  CASE k = "Let" -> LetStatement(toks, c0)
          [] k = "While" ->
               Bind(parse_while_loop(toks, c0), LAMBDA r :
               Ok(r.c, r.errs, [tag |-> "WhileLoop", stmt |-> r.val]))
          [] k = "If" ->
               Bind(parse_if_else(toks, c0), LAMBDA r :
               Ok(r.c, r.errs, [tag |-> "IfElse", stmt |-> r.val]))
          [] k = "For" ->
               Bind(parse_for_in_loop(toks, c0), LAMBDA r :
               Ok(r.c, r.errs, [tag |-> "ForInLoop", stmt |-> r.val]))
          [] k = "Return" ->
               \* Advance: Consume `return` token
               Bind(parse_expression(toks, Advance(c0), RestrictionNone), LAMBDA r :
               Ok(r.c, r.errs, [tag |-> "Return", value |-> r.val]))
          [] OTHER ->
               Bind(parse_expression(toks, c0, RestrictionNone), LAMBDA r :
               Ok(r.c, r.errs, [tag |-> "Expression", expr |-> r.val]))

\* variant: every statement needs its `;`
NeedsSemiAlways(stmt) == TRUE
\* needs_semi of parse_statement
NeedsSemi(stmt) == stmt.tag \notin {"WhileLoop", "IfElse", "ForInLoop"}

parse_statement(toks, c0) ==
    Bind(StatementArm(toks, c0), LAMBDA s :
    IF NeedsSemi(s.val)
    THEN Bind(RecoverAtToken(toks, s.c, s.errs, "SemiColon"), LAMBDA x :
         Ok(x.c, x.errs, s.val))
    ELSE s)

\* the names of parse_for_in_loop: `index, elem` when a comma follows the first name
ForNames(toks, c0, errs0) ==
    IF Is(toks, c0.idx + 1, "Comma")
    THEN Bind(parse_name(toks, c0), LAMBDA i :
         Bind(Expect(toks, i.c, errs0 \o i.errs, "Comma"), LAMBDA x :
         Bind(parse_name(toks, x.c), LAMBDA e :
         Ok(e.c, x.errs \o e.errs,
            [elem_var_name |-> e.val.name, elem_var_name_span |-> e.val.span,
             index_var |-> [some |-> TRUE, name |-> i.val.name, span |-> i.val.span]]))))
    ELSE Bind(parse_name(toks, c0), LAMBDA e :
         Ok(e.c, errs0 \o e.errs,
            [elem_var_name |-> e.val.name, elem_var_name_span |-> e.val.span,
             index_var |-> [some |-> FALSE]]))

parse_for_in_loop(toks, c0) ==
    Bind(Expect(toks, c0, <<>>, "For"), LAMBDA x1 :
    Bind(ForNames(toks, x1.c, x1.errs), LAMBDA n :
    Bind(Expect(toks, n.c, n.errs, "In"), LAMBDA x2 :
    Bind(parse_expression(toks, x2.c, NoStructLiteral), LAMBDA v :
    Bind(parse_block(toks, v.c), LAMBDA b :
    Ok(b.c, x2.errs \o v.errs \o b.errs,
       [elem_var_name |-> n.val.elem_var_name,
        elem_var_name_span |-> n.val.elem_var_name_span,
        index_var |-> n.val.index_var,
        iterable_value |-> v.val,
        body |-> b.val]))))))

parse_while_loop(toks, c0) ==
    Bind(Expect(toks, c0, <<>>, "While"), LAMBDA x1 :
    Bind(parse_expression(toks, x1.c, NoStructLiteral), LAMBDA v :
    Bind(parse_block(toks, v.c), LAMBDA b :
    Ok(b.c, x1.errs \o v.errs \o b.errs, [condition |-> v.val, body |-> b.val]))))

\* the optional `else` block of parse_if_else
ElseBody(toks, c, errs) ==
    IF Is(toks, c.idx, "Else")
    THEN Bind(Expect(toks, c, errs, "Else"), LAMBDA x :
         Bind(parse_block(toks, x.c), LAMBDA e :
         Ok(e.c, x.errs \o e.errs, [some |-> TRUE, block |-> e.val])))
    ELSE Ok(c, errs, [some |-> FALSE])

parse_if_else(toks, c0) ==
    Bind(Expect(toks, c0, <<>>, "If"), LAMBDA x1 :
    Bind(parse_expression(toks, x1.c, NoStructLiteral), LAMBDA v :
    Bind(parse_block(toks, v.c), LAMBDA b :
    Bind(ElseBody(toks, b.c, x1.errs \o v.errs \o b.errs), LAMBDA e :
    Ok(e.c, e.errs, [condition |-> v.val, if_body |-> b.val, else_body |-> e.val])))))

parse_function(toks, c0) ==
    Bind(Expect(toks, c0, <<>>, "Fn"), LAMBDA x1 :
    Bind(parse_name(toks, x1.c), LAMBDA n :
    Bind(Expect(toks, n.c, x1.errs \o n.errs, "OParen"), LAMBDA x2 :
    Bind(ParameterLoop(toks, x2.c, x2.errs, <<>>, "CParen"), LAMBDA l :
    Bind(Expect(toks, l.c, l.errs, "CParen"), LAMBDA x3 :
    Bind(ReturnType(toks, x3.c, x3.errs), LAMBDA t :
    Bind(parse_block(toks, t.c), LAMBDA b :
    Ok(b.c, t.errs \o b.errs,
       [name |-> n.val.name, name_span |-> n.val.span,
        body |-> b.val,
        parameters |-> l.val,
        return_type |-> t.val.ttype,
        return_type_span |-> t.val.span]))))))))

----------------------------------------------------------------------------
(* parse_program: one step is one iteration of its `while *idx < tokens.len()` *)

\* the `errors` of parse_program after the closure returned None: one
\* UnexpectedEndOfInput at the span of tokens.last()
EndOfInputError(toks) == UnexpectedEndOfInput(Tok(toks, LastIndex(toks)).span)

\* the program after `program.<field>.push(item)`
PushItem(prog, field, item) == [prog EXCEPT ![field] = Append(@, item)]

\* The rest of the iteration once the item's parse function returned r: on Some the
\* item is pushed and its errors appended, on None the loop ends with one
\* UnexpectedEndOfInput and the errors of the item are dropped with the closure.
FinishItem(r, field) ==
    /\ stalled' = (stalled \/ r.c.stall)
    /\ built' = built \o r.c.exprs
    /\ idx' = r.c.idx
    /\ UNCHANGED tokens
    /\ IF r.c.panic
       THEN /\ panicked' = TRUE
            /\ pc' = "panicked"
            /\ recorded' = recorded \o r.c.rec
            /\ UNCHANGED <<errors, program, eoi>>
       ELSE IF r.ok
       THEN /\ program' = PushItem(program, field, r.val)
            /\ errors' = errors \o r.errs
            /\ recorded' = recorded \o r.c.rec
            /\ pc' = "loop"
            /\ UNCHANGED <<panicked, eoi>>
       ELSE IF ~IndexOk(tokens, LastIndex(tokens))
       THEN /\ panicked' = TRUE
            /\ pc' = "panicked"
            /\ eoi' = TRUE
            /\ recorded' = recorded \o r.c.rec
            /\ UNCHANGED <<errors, program>>
       ELSE /\ errors' = Append(errors, EndOfInputError(tokens))
            /\ recorded' = Append(recorded \o r.c.rec, EndOfInputError(tokens))
            /\ eoi' = TRUE
            /\ pc' = "returned"
            /\ UNCHANGED <<panicked, program>>

\* `let token = &tokens[*idx]` at the head of the closure
AtItem(kind) ==
    /\ pc = "loop"
    /\ idx < Len(tokens)
    /\ IndexOk(tokens, idx)
    /\ Tok(tokens, idx).kind.tag = kind

ItemOpaqueStruct ==
    /\ AtItem("Opaque")
    /\ FinishItem(parse_opaque_struct(tokens, Context(idx)), "structs")

ItemStruct ==
    /\ AtItem("Struct")
    /\ FinishItem(parse_struct(tokens, Context(idx)), "structs")

ItemFunction ==
    /\ AtItem("Fn")
    /\ FinishItem(parse_function(tokens, Context(idx)), "functions")

ItemExternFunction ==
    /\ AtItem("Extern")
    /\ FinishItem(parse_extern_function(tokens, Context(idx)), "extern_functions")

\* the `_` arm: errors.push(UnexpectedToken(token.span)); *idx += 1
ItemUnexpectedToken ==
    /\ pc = "loop"
    /\ idx < Len(tokens)
    /\ IndexOk(tokens, idx)
    /\ Tok(tokens, idx).kind.tag \notin {"Opaque", "Struct", "Fn", "Extern"}
    /\ errors' = Append(errors, UnexpectedToken(Tok(tokens, idx).span))
    /\ recorded' = Append(recorded, UnexpectedToken(Tok(tokens, idx).span))
    /\ idx' = idx + 1
    /\ UNCHANGED <<tokens, program, pc, panicked, stalled, eoi, built>>

\* the while condition fails: parse_program returns (program, errors)
ProgramReturn ==
    /\ pc = "loop"
    /\ ~(idx < Len(tokens))
    /\ pc' = "returned"
    /\ UNCHANGED <<tokens, idx, errors, program, recorded, panicked, stalled, eoi, built>>

----------------------------------------------------------------------------
(* The token sequences parse_program is run on *)

K(tag) == [tag |-> tag]
Id(name) == [tag |-> "Ident", name |-> name]
Str == [tag |-> "StringLiteral", string |-> "s"]
Int1 == [tag |-> "IntLiteral", value |-> 1]

\* Token i (0-based) lies at bytes 3i .. 3i+1 of source unit 0: two bytes and a gap.
MkTokens(kinds) == [i \in 1..Len(kinds) |-> [kind |-> kinds[i], span |-> Span(0, 3 * (i - 1), 2)]]

\* every token kind the parser tells apart (an identifier, a string and an integer
\* stand for their kinds)
Alphabet ==
    { Id("a"), Str, Int1 } \cup
    { K(t) : t \in { "True", "False", "Fn", "Extern", "Struct", "Opaque", "Let", "Mut",
                     "If", "Else", "While", "For", "In", "Return",
                     "OParen", "CParen", "OBrace", "CBrace", "OBracket", "CBracket",
                     "SemiColon", "Comma", "Colon", "Dot", "Equal", "EqualEqual",
                     "GreaterThan", "GreaterThanEqual", "LessThan", "LessThanEqual",
                     "Plus", "Minus", "Star", "Slash", "RightArrow", "Unknown" } }

\* the kinds the arbitrary runs of more than one token are drawn from
CoreAlphabet ==
    { Id("a"), Int1 } \cup
    { K(t) : t \in { "Fn", "Let", "If", "OParen", "CParen", "OBrace", "CBrace",
                     "OBracket", "CBracket", "SemiColon", "Comma", "Colon", "Dot",
                     "Equal", "Star", "RightArrow" } }

MaxNoise == 2

\* Where the arbitrary tokens are put: <<before, after>>
FnOpen == <<K("Fn"), Id("a"), K("OParen"), K("CParen"), K("OBrace")>>
FnItem == FnOpen \o <<K("CBrace")>>

Contexts ==
    { <<<<>>, <<>>>>,
      <<<<>>, FnItem>>,
      <<FnOpen, <<K("CBrace")>>>>,
      <<FnOpen, <<K("SemiColon"), K("CBrace")>> \o FnItem>>,
      <<FnOpen \o <<Id("a")>>, <<K("SemiColon"), K("CBrace")>>>>,
      <<FnOpen, <<K("Star"), Id("a"), K("SemiColon"), K("CBrace")>>>>,
      <<FnOpen \o <<K("If")>>, <<K("OBrace"), K("CBrace"), K("CBrace")>>>>,
      <<FnOpen \o <<Id("a"), K("OParen")>>, <<K("CParen"), K("SemiColon"), K("CBrace")>>>>,
      <<FnOpen \o <<K("OBracket")>>, <<K("CBracket"), K("SemiColon"), K("CBrace")>>>>,
      <<<<K("Struct"), Id("a"), K("OBrace")>>, <<K("CBrace")>> \o FnItem>>,
      <<<<K("Extern"), K("Fn"), Id("a"), K("OParen")>>, <<K("CParen"), K("SemiColon")>>>>,
      <<<<K("Opaque"), K("Struct")>>, <<K("SemiColon")>>>> }

\* a single token of any kind, or a run of at most MaxNoise core tokens
Noise == {<<k>> : k \in Alphabet} \cup SeqsUpTo(CoreAlphabet, MaxNoise)

NoisyInputs == {c[1] \o n \o c[2] : c \in Contexts, n \in Noise}

----------------------------------------------------------------------------
(* Valid programs: token sequences of the grammar the parser accepts       *)
(* without a diagnostic, with lists of at most MaxList elements            *)

MaxList == 2

RECURSIVE JoinWith(_, _)
JoinWith(ss, sep) ==
    IF ss = <<>> THEN <<>>
    ELSE IF Tail(ss) = <<>> THEN Head(ss)
    ELSE Head(ss) \o sep \o JoinWith(Tail(ss), sep)

\* comma-separated lists of elements of E, the trailing comma optional
Lists(E) ==
    {<<>>} \cup
    { JoinWith(l, <<K("Comma")>>) \o t :
        l \in SeqsUpTo(E, MaxList) \ {<<>>}, t \in {<<>>, <<K("Comma")>>} }

Infix(L, ops, R) == {l \o <<K(op)>> \o r : l \in L, op \in ops, r \in R}
Wrapped(open, L, close) == {open \o l \o <<K(close)>> : l \in L}

Types == { <<Id("a")>>, <<K("RightArrow"), Id("a")>>, <<K("RightArrow"), K("Mut"), Id("a")>> }
Parameters == {<<Id("a"), K("Colon")>> \o t : t \in Types}
ReturnTypes == {<<>>} \cup {<<K("Colon")>> \o t : t \in Types}

Operands == { <<Id("a")>>, <<Int1>> }
Atoms == Operands \cup { <<Str>>, <<K("True")>>, <<K("False")>> }

Primaries ==
    Atoms
    \cup Wrapped(<<Id("a"), K("OParen")>>, Lists(Operands), "CParen")
    \cup Wrapped(<<Id("a"), K("OBrace")>>,
                 Lists({<<Id("a"), K("Colon")>> \o e : e \in Operands}), "CBrace")
    \cup Wrapped(<<K("OBracket")>>, Lists(Operands), "CBracket")

Postfixed ==
    { <<Id("a")>> \o f \o i :
        f \in {<<>>, <<K("Dot"), Id("a")>>},
        i \in {<<>>} \cup Wrapped(<<K("OBracket")>>, Operands, "CBracket") }

Terms ==
    Primaries \cup Postfixed
    \cup { pre \o t : pre \in {<<K("RightArrow")>>, <<K("RightArrow"), K("Mut")>>, <<K("Star")>>},
                      t \in Postfixed \cup {<<K("Star"), Id("a")>>} }

Factors == Terms \cup Infix(Operands, {"Star", "Slash"}, Operands \cup {<<Id("a"), K("Star"), Int1>>})
SmallFactors == Operands \cup {<<Id("a"), K("Slash"), Int1>>}
Maths == Factors \cup Infix(SmallFactors, {"Plus", "Minus"}, SmallFactors \cup {<<Int1, K("Plus"), Id("a")>>})
SmallMaths == Operands \cup {<<Id("a"), K("Star"), Int1, K("Minus"), Id("a")>>}
Assignments == Maths \cup Infix(SmallMaths, {"Equal"}, SmallMaths)
SmallAssignments == Operands \cup {<<Id("a"), K("Equal"), Int1, K("Plus"), Id("a")>>}
Expressions ==
    Assignments
    \cup Infix(SmallAssignments, CompareKinds,
               SmallAssignments \cup {<<Id("a"), K("LessThan"), Int1>>})

\* an identifier directly before `{` opens a struct literal
HasStructLiteral(ks) ==
    \E i \in 1..(Len(ks) - 1) : ks[i].tag = "Ident" /\ ks[i + 1].tag = "OBrace"

Conditions == {e \in Expressions : ~HasStructLiteral(e)}
SmallConditions == {<<Id("a")>>, <<Id("a"), K("LessThan"), Int1>>, <<Id("a"), K("OParen"), K("CParen")>>}

SimpleStatements ==
    { pre \o e \o <<K("SemiColon")>> :
        pre \in { <<>>, <<K("Return")>>,
                  <<K("Let"), Id("a"), K("Equal")>>,
                  <<K("Let"), K("Mut"), Id("a"), K("Equal")>> },
        e \in Expressions }

ForHeads == { <<K("For"), Id("a"), K("In")>>, <<K("For"), Id("a"), K("Comma"), Id("a"), K("In")>> }

SmallBlocks ==
    { <<K("OBrace"), K("CBrace")>>,
      <<K("OBrace"), Id("a"), K("SemiColon"), K("CBrace")>>,
      <<K("OBrace"), K("If"), Id("a"), K("OBrace"), K("CBrace"), K("CBrace")>> }

ControlStatements ==
    { h \o c \o <<K("OBrace"), K("CBrace")>> :
        h \in {<<K("While")>>, <<K("If")>>} \cup ForHeads, c \in Conditions }
    \cup { h \o c \o b :
             h \in {<<K("While")>>, <<K("If")>>} \cup ForHeads, c \in SmallConditions, b \in SmallBlocks }
    \cup { <<K("If")>> \o c \o b \o <<K("Else")>> \o e :
             c \in SmallConditions, b \in SmallBlocks, e \in SmallBlocks }

Statements == SimpleStatements \cup ControlStatements

SmallStatements ==
    { <<Id("a"), K("SemiColon")>>,
      <<K("Let"), Id("a"), K("Equal"), Int1, K("SemiColon")>>,
      <<K("While"), Id("a"), K("OBrace"), K("CBrace")>> }

Blocks ==
    Wrapped(<<K("OBrace")>>, Statements, "CBrace")
    \cup Wrapped(<<K("OBrace")>>, {Concat(l) : l \in SeqsUpTo(SmallStatements, MaxList)}, "CBrace")

Signatures ==
    { <<K("Fn"), Id("a"), K("OParen")>> \o ps \o <<K("CParen")>> \o rt :
        ps \in Lists(Parameters), rt \in ReturnTypes }

Functions ==
    {FnItem}
    \cup {<<K("Fn"), Id("a"), K("OParen"), K("CParen")>> \o b : b \in Blocks}
    \cup {sig \o <<K("OBrace"), K("CBrace")>> : sig \in Signatures}

ExternFunctions == {<<K("Extern")>> \o sig \o <<K("SemiColon")>> : sig \in Signatures}

Structs ==
    Wrapped(<<K("Struct"), Id("a"), K("OBrace")>>, Lists(Parameters), "CBrace")
    \cup {<<K("Opaque"), K("Struct"), Id("a"), K("SemiColon")>>}

SmallItems ==
    { FnItem,
      <<K("Opaque"), K("Struct"), Id("a"), K("SemiColon")>>,
      <<K("Struct"), Id("a"), K("OBrace"), Id("a"), K("Colon"), Id("a"), K("CBrace")>>,
      <<K("Extern"), K("Fn"), Id("a"), K("OParen"), K("CParen"), K("SemiColon")>> }

\* chains `t op t op .. t` of at most MaxOps additive operators between operands
MaxOps == 3

RECURSIVE ChainsOf(_)
ChainsOf(n) ==
    IF n = 0 THEN Operands
    ELSE {t \o <<K(op)>> \o r : t \in Operands, op \in {"Plus", "Minus"}, r \in ChainsOf(n - 1)}

AdditiveChains == UNION {ChainsOf(n) : n \in 1..MaxOps}

ReturnOpen == <<K("Fn"), Id("f"), K("OParen"), K("CParen"), K("OBrace"), K("Return")>>

\* `fn f() { return 1 + 2 + 3; }`
SumProgram ==
    ReturnOpen
    \o <<[tag |-> "IntLiteral", value |-> 1], K("Plus"), [tag |-> "IntLiteral", value |-> 2],
         K("Plus"), [tag |-> "IntLiteral", value |-> 3]>>
    \o <<K("SemiColon"), K("CBrace")>>

ChainPrograms ==
    {SumProgram} \cup {ReturnOpen \o ch \o <<K("SemiColon"), K("CBrace")>> : ch \in AdditiveChains}

\* `fn main() {}`
MainProgram == <<K("Fn"), Id("main"), K("OParen"), K("CParen"), K("OBrace"), K("CBrace")>>

ValidPrograms ==
    {<<>>, MainProgram}
    \cup ChainPrograms
    \cup Functions \cup ExternFunctions \cup Structs
    \cup {i \o j : i \in SmallItems, j \in SmallItems}

\* the valid programs, and each cut short after any number of tokens
Truncated == UNION {{SubSeq(p, 1, n) : n \in 0..Len(p)} : p \in ValidPrograms}

\* `struct P { x: i32 y: i32 }`: no comma between the two fields
MissingComma ==
    <<K("Struct"), Id("P"), K("OBrace"), Id("x"), K("Colon"), Id("i32"),
      Id("y"), K("Colon"), Id("i32"), K("CBrace")>>

\* the struct alone, and followed by one more item
MissingCommaPrograms == {MissingComma \o j : j \in {<<>>} \cup SmallItems}

\* conditions with an identifier directly before `{` inside a call argument, an array
\* element, an index, a prefix operand and a binary operand
NestedConditions ==
    { <<Id("a"), K("OParen"), Id("a"), K("OBrace"), K("CBrace"), K("CParen")>>,
      <<K("OBracket"), Id("a"), K("OBrace"), K("CBrace"), K("CBracket")>>,
      <<Id("a"), K("OBracket"), Id("a"), K("OBrace"), K("CBrace"), K("CBracket")>>,
      <<K("Star"), Id("a")>>,
      <<Int1, K("Plus"), Id("a")>> }

ConditionHeads == {<<K("While")>>, <<K("If")>>} \cup ForHeads

\* `fn a() { <head> <condition> { } }`
NestedConditionPrograms ==
    { FnOpen \o h \o c \o <<K("OBrace"), K("CBrace"), K("CBrace")>> :
        h \in ConditionHeads, c \in NestedConditions }

Inputs ==
    NoisyInputs \cup ValidPrograms \cup Truncated \cup MissingCommaPrograms
    \cup NestedConditionPrograms

Init ==
    /\ tokens \in {MkTokens(ks) : ks \in Inputs}
    /\ idx = 0
    /\ errors = <<>>
    /\ program = [structs |-> <<>>, extern_functions |-> <<>>, functions |-> <<>>]
    /\ pc = "loop"
    /\ recorded = <<>>
    /\ panicked = FALSE
    /\ stalled = FALSE
    /\ eoi = FALSE
    /\ built = <<>>
    /\ source = <<>>
    /\ lex_idx = 0
    /\ lex_tokens = <<>>
    /\ lex_errors = <<>>
    /\ lex_pc = "idle"

Next ==
    \/ ItemOpaqueStruct /\ UNCHANGED lexvars
    \/ ItemStruct /\ UNCHANGED lexvars
    \/ ItemFunction /\ UNCHANGED lexvars
    \/ ItemExternFunction /\ UNCHANGED lexvars
    \/ ItemUnexpectedToken /\ UNCHANGED lexvars
    \/ ProgramReturn /\ UNCHANGED lexvars

Spec == Init /\ [][Next]_vars

----------------------------------------------------------------------------
(* The sources lex is run on: every concatenation of at most MaxChunks     *)
(* chunks.  A chunk is a whole character or word, so every source is valid *)
(* UTF-8, as a &str is.                                                    *)

MaxChunks == 3

BigDigits == <<50, 49, 52, 55, 52, 56, 51, 54, 52>>   \* "214748364"

Chunks ==
    { <<32>>,           \* space
      <<97>>,           \* a
      KwFn,
      KwExtern,
      <<34>>,           \* "
      <<55>>,           \* 7
      <<56>>,           \* 8
      BigDigits,
      <<59>>,           \* ;
      <<35>>,           \* #
      <<195, 169>> }    \* e with acute accent, two bytes

Sources == {Concat(cs) : cs \in SeqsUpTo(Chunks, MaxChunks)}

ParseIdle ==
    /\ tokens = <<>>
    /\ idx = 0
    /\ errors = <<>>
    /\ program = [structs |-> <<>>, extern_functions |-> <<>>, functions |-> <<>>]
    /\ pc = "idle"
    /\ recorded = <<>>
    /\ panicked = FALSE
    /\ stalled = FALSE
    /\ eoi = FALSE
    /\ built = <<>>

InitLex ==
    /\ source \in Sources
    /\ lex_idx = 0
    /\ lex_tokens = <<>>
    /\ lex_errors = <<>>
    /\ lex_pc = "scan"
    /\ ParseIdle

NextLex ==
    \/ LexBreak /\ UNCHANGED parsevars
    \/ LexIdentifier /\ UNCHANGED parsevars
    \/ LexString /\ UNCHANGED parsevars
    \/ LexInteger /\ UNCHANGED parsevars
    \/ LexPunctuation /\ UNCHANGED parsevars

SpecLex == InitLex /\ [][NextLex]_vars

----------------------------------------------------------------------------
(* Properties of lex, stated for SpecLex *)

\* C1: lex is total: on every source it reaches its return and never panics.
C1_LexTotal == lex_pc # "panicked"

\* the iteration at the head of the loop lexes a digit run that does not fit an i32
AtOverflowingInteger ==
    /\ lex_pc = "scan"
    /\ LexAt < Len(source)
    /\ IsAsciiDigit(LexByte)
    /\ ~ParseI32(Slice(source, LexAt, ScanDigits(source, LexAt))).ok

\* C8: a digit run whose value does not fit an i32 adds an IntegerOverflow error to
\* the error list, and lexing goes on with the bytes after the run.
C8_OverflowReported ==
    [][AtOverflowingInteger =>
          /\ lex_pc' = "scan"
          /\ lex_idx' = ScanDigits(source, LexAt)
          /\ Len(lex_errors') = Len(lex_errors) + 1
          /\ Last(lex_errors').tag = "IntegerOverflow"]_vars

\* the iteration at the head of the loop lexes a `"` that no later `"` closes
AtUnterminatedString ==
    /\ lex_pc = "scan"
    /\ LexAt < Len(source)
    /\ LexByte = 34
    /\ ScanToQuote(source, LexAt + 1) = Len(source)

\* C9: an opening quote with no closing quote adds exactly one UnterminatedString
\* error from the quote to the end of input and a StringLiteral token with the same
\* span, and leaves the cursor at the end of input with lex still running.
C9_UnterminatedString ==
    [][AtUnterminatedString =>
          /\ lex_pc' = "scan"
          /\ lex_idx' = Len(source)
          /\ lex_errors' = Append(lex_errors,
                 UnterminatedStringError(LexSpan(LexAt, Len(source) - LexAt)))
          /\ Len(lex_tokens') = Len(lex_tokens) + 1
          /\ Last(lex_tokens').kind.tag = "StringLiteral"
          /\ Last(lex_tokens').start = LexAt
          /\ Last(lex_tokens').len = Len(source) - LexAt]_vars

----------------------------------------------------------------------------
(* Properties of parse_program, stated for Spec *)

\* C2: parse_program never indexes the tokens out of bounds and never panics: no
\* `tokens[*idx - 1]`, `tokens[*idx]` or `tokens.last().unwrap()` fails, and the
\* cursor stays within 0 .. tokens.len().
C2_NoPanic ==
    /\ ~panicked
    /\ pc # "panicked"
    /\ idx >= 0
    /\ idx <= Len(tokens)

\* an array or struct literal was closed by the last token of the input, and the
\* item it is in then ran out of tokens
C2_Witness ==
    /\ pc = "returned"
    /\ eoi
    /\ \E i \in DOMAIN built :
          /\ built[i].expr.tag = "Literal"
          /\ built[i].expr.literal.tag \in {"Array", "Struct"}
          /\ built[i].hi = Len(tokens)

\* C3: the cursor never decreases, every iteration of the program loop moves it
\* forward or ends the loop by the end-of-input path, and no inner loop continues
\* without moving it forward.
C3_Progress ==
    [][/\ idx' >= idx
       /\ idx' <= Len(tokens')
       /\ ~stalled'
       /\ (pc = "loop" /\ idx < Len(tokens)) => (idx' > idx \/ (eoi' /\ pc' = "returned"))
       /\ (pc = "loop" /\ pc' = "loop") => idx' > idx]_vars

\* a run that recovered over several tokens inside a function and returned
C3_Witness ==
    /\ pc = "returned"
    /\ ~eoi
    /\ idx = Len(tokens)
    /\ Len(recorded) >= 3
    /\ Len(program.functions) >= 1

\* C4: a run that recorded any diagnostic (a skipped token, a failed expect)
\* returns a non-empty diagnostic list.
C4_DeviationReported == (pc = "returned" /\ recorded # <<>>) => errors # <<>>

ValidTokens == {MkTokens(p) : p \in ValidPrograms}

\* `fn main() {}`: its tokens
MainTokens == MkTokens(MainProgram)

\* C5: on a valid program parse_program returns no diagnostic and consumes every
\* token; on `fn main() {}` it returns one function main without parameters, with
\* the Unit return type and an empty body, and nothing else.
C5_ValidProgram ==
    /\ (pc = "returned" /\ tokens \in ValidTokens) =>
          /\ errors = <<>>
          /\ recorded = <<>>
          /\ ~eoi
          /\ idx = Len(tokens)
    /\ (pc = "returned" /\ tokens = MainTokens) =>
          /\ program.structs = <<>>
          /\ program.extern_functions = <<>>
          /\ Len(program.functions) = 1
          /\ program.functions[1].name = "main"
          /\ program.functions[1].parameters = <<>>
          /\ program.functions[1].return_type = TypeUnit
          /\ program.functions[1].body = [statements |-> <<>>]

\* a valid program with a function whose body holds statements was parsed
C5_Witness ==
    /\ pc = "returned"
    /\ tokens \in ValidTokens
    /\ Len(tokens) > Len(MainTokens)
    /\ Len(program.functions) = 1
    /\ Len(program.functions[1].body.statements) >= 2
    /\ errors = <<>>

\* `fn main() {}` was parsed
C5_MainWitness ==
    /\ pc = "returned"
    /\ tokens = MainTokens
    /\ Len(program.functions) = 1

NoEndOfInput(errs) == \A i \in DOMAIN errs : errs[i].tag # "UnexpectedEndOfInput"

\* C6: the step in which an item runs out of tokens appends one
\* UnexpectedEndOfInput at the last token's span to a list that held none, ends the
\* loop and keeps the items pushed before; no other step adds one.
C6_EndOfInput ==
    [][IF eoi'
       THEN /\ ~eoi
            /\ pc' = "returned"
            /\ NoEndOfInput(errors)
            /\ errors' = Append(errors, UnexpectedEndOfInput(Last(tokens).span))
            /\ program' = program
       ELSE NoEndOfInput(errors')]_vars

\* an item ran out of tokens after an earlier item was completed
C6_Witness ==
    /\ eoi
    /\ pc = "returned"
    /\ Len(tokens) >= 2
    /\ Len(program.functions) + Len(program.structs) >= 1
    /\ Last(errors) = UnexpectedEndOfInput(Last(tokens).span)

\* C7: the returned diagnostic list holds every diagnostic recorded during the run,
\* in the order of recording.
C7_Complete == pc = "returned" => errors = recorded

\* the span from the first to the last of the tokens lo .. hi - 1
TokenRange(lo, hi) == SpanTo(tokens[lo + 1].span, tokens[hi].span)

\* C10: every expression parsed from a valid program has the span of the tokens
\* consumed for it, from its first to its last.
C10_SpanExact ==
    tokens \in ValidTokens =>
        \A i \in DOMAIN built :
            ExprSpan(built[i].expr) = TokenRange(built[i].lo, built[i].hi)

\* the zero-length span directly behind the token tok
SpanAfter(tok) == Span(tok.span.source, tok.span.start + tok.span.len, 0)

\* a function with an empty body and no `: Type`: its `)` is the third token from the end
UnannotatedFunctions ==
    {MkTokens(<<K("Fn"), Id("a"), K("OParen")>> \o ps \o <<K("CParen"), K("OBrace"), K("CBrace")>>) :
        ps \in Lists(Parameters)}

\* an extern function without `: Type`: its `)` is the token before the `;`
UnannotatedExternFunctions ==
    {MkTokens(<<K("Extern"), K("Fn"), Id("a"), K("OParen")>> \o ps \o <<K("CParen"), K("SemiColon")>>) :
        ps \in Lists(Parameters)}

\* C11: a function or extern function without a `: Type` annotation has the return
\* type Unit and a zero-length return_type_span that starts directly behind the `)`
\* of its parameter list.
C11_ReturnTypeSpan ==
    /\ (pc = "returned" /\ tokens \in UnannotatedFunctions) =>
          /\ Len(program.functions) = 1
          /\ program.functions[1].return_type = TypeUnit
          /\ program.functions[1].return_type_span = SpanAfter(tokens[Len(tokens) - 2])
    /\ (pc = "returned" /\ tokens \in UnannotatedExternFunctions) =>
          /\ Len(program.extern_functions) = 1
          /\ program.extern_functions[1].return_type = TypeUnit
          /\ program.extern_functions[1].return_type_span = SpanAfter(tokens[Len(tokens) - 1])

ChainTokens == {MkTokens(p) : p \in ChainPrograms}

\* the expression an operand token stands for
OperandExpr(tok) ==
    IF tok.kind.tag = "Ident"
    THEN [tag |-> "Variable", name |-> tok.kind.name, span |-> tok.span]
    ELSE [tag |-> "Literal",
          literal |-> [tag |-> "Int", value |-> tok.kind.value, span |-> tok.span]]

\* the right-nested tree of the chain whose operands are the tokens i, i + 2, .. hi
\* (0-based) and whose operators lie between them
RECURSIVE RightNested(_, _, _)
RightNested(toks, i, hi) ==
    IF i >= hi THEN OperandExpr(Tok(toks, i))
    ELSE [tag |-> "MathOp",
          lhs |-> OperandExpr(Tok(toks, i)),
          rhs |-> RightNested(toks, i + 2, hi),
          op |-> IF Tok(toks, i + 1).kind.tag = "Plus" THEN "Addition" ELSE "Subtraction"]

\* C12: a chain of `+`/`-` between operands is parsed right-nested,
\* t1 op1 (t2 op2 (.. tn)), without a diagnostic: `return 1 + 2 + 3;` gives
\* 1 + (2 + 3).
C12_RightAssociative ==
    (pc = "returned" /\ tokens \in ChainTokens) =>
        /\ errors = <<>>
        /\ recorded = <<>>
        /\ Len(program.functions) = 1
        /\ program.functions[1].body.statements =
              <<[tag |-> "Return", value |-> RightNested(tokens, Len(ReturnOpen), Len(tokens) - 3)]>>

\* `fn f() { return 1 + 2 + 3; }` was parsed
C12_Witness ==
    /\ pc = "returned"
    /\ tokens = MkTokens(SumProgram)
    /\ Len(program.functions) = 1
    /\ program.functions[1].body.statements[1].value.rhs.tag = "MathOp"

----------------------------------------------------------------------------
(* lex followed by parse_program: the tokens lex returned are the slice    *)
(* parse_program is run on (the lex errors go to the caller on their own). *)

\* Token { kind, span } of the parser for a Token { kind, start, len } of lex
ParserToken(tok) == [kind |-> tok.kind, span |-> Span(0, tok.start, tok.len)]

\* the caller passes the tokens of lex to parse_program
Handoff ==
    /\ lex_pc = "returned"
    /\ pc = "idle"
    /\ tokens' = [i \in 1..Len(lex_tokens) |-> ParserToken(lex_tokens[i])]
    /\ pc' = "loop"
    /\ UNCHANGED <<idx, errors, program, recorded, panicked, stalled, eoi, built>>
    /\ UNCHANGED lexvars

MaxPipelineChunks == 3

\* "extern fn exit(code: i32);"
ExitSource ==
    <<101, 120, 116, 101, 114, 110, 32, 102, 110, 32, 101, 120, 105, 116, 40,
      99, 111, 100, 101, 58, 32, 105, 51, 50, 41, 59>>

PipelineChunks ==
    { <<32>>, <<97>>, KwFn, KwExtern, <<34>>, <<55>>,
      <<40>>, <<41>>, <<123>>, <<125>>, <<58>>, <<59>> }

PipelineSources == {ExitSource} \cup {Concat(cs) : cs \in SeqsUpTo(PipelineChunks, MaxPipelineChunks)}

InitPipeline ==
    /\ source \in PipelineSources
    /\ lex_idx = 0
    /\ lex_tokens = <<>>
    /\ lex_errors = <<>>
    /\ lex_pc = "scan"
    /\ ParseIdle

\* lex produces no `struct` or `opaque` token, so those two arms of parse_program's
\* match are never taken on its output
NextPipeline ==
    \/ LexBreak /\ UNCHANGED parsevars
    \/ LexIdentifier /\ UNCHANGED parsevars
    \/ LexString /\ UNCHANGED parsevars
    \/ LexInteger /\ UNCHANGED parsevars
    \/ LexPunctuation /\ UNCHANGED parsevars
    \/ Handoff
    \/ ItemFunction /\ UNCHANGED lexvars
    \/ ItemExternFunction /\ UNCHANGED lexvars
    \/ ItemUnexpectedToken /\ UNCHANGED lexvars
    \/ ProgramReturn /\ UNCHANGED lexvars

SpecPipeline == InitPipeline /\ [][NextPipeline]_vars

\* "exit", "code", "i32"
NameExit == <<101, 120, 105, 116>>
NameCode == <<99, 111, 100, 101>>
NameI32 == <<105, 51, 50>>

\* C13: lex followed by parse_program on `extern fn exit(code: i32);` returns exactly
\* one extern function, named exit, with the single parameter code of the type named
\* i32 and the Unit return type, no struct, no function and no parse diagnostic.
C13_ExternExit ==
    (source = ExitSource /\ pc = "returned") =>
        /\ errors = <<>>
        /\ program.structs = <<>>
        /\ program.functions = <<>>
        /\ Len(program.extern_functions) = 1
        /\ program.extern_functions[1].name = NameExit
        /\ Len(program.extern_functions[1].parameters) = 1
        /\ program.extern_functions[1].parameters[1].name = NameCode
        /\ program.extern_functions[1].parameters[1].ttype = TypeFromString(NameI32)
        /\ program.extern_functions[1].return_type = TypeUnit

----------------------------------------------------------------------------
(* Properties of parse_struct, stated for Spec *)

MissingCommaTokens == {MkTokens(p) : p \in MissingCommaPrograms}

\* the struct P with the field x alone
StructPx(toks) ==
    [tag |-> "Transparent", name |-> "P", span |-> Tok(toks, 1).span,
     fields |-> <<[name |-> "x", ttype |-> TypeFromString("i32")]>>]

\* C14: on the tokens of `struct P { x: i32 y: i32 }` the item step yields the
\* Transparent struct P with the field x alone, records at least one diagnostic and
\* leaves the cursor right after the closing brace; an item that follows is then parsed
\* as it is on its own: it is added to the program, and no diagnostic lies in it.
C14_MissingComma ==
    /\ [][(tokens \in MissingCommaTokens /\ idx = 0 /\ pc = "loop") =>
            /\ idx' = Len(MissingComma)
            /\ pc' = "loop"
            /\ program'.structs = <<StructPx(tokens)>>
            /\ Len(errors') >= 1]_vars
    /\ []((tokens \in MissingCommaTokens /\ pc = "returned") =>
            /\ program.structs[1] = StructPx(tokens)
            /\ Len(program.structs) + Len(program.functions) + Len(program.extern_functions)
                 = (IF Len(tokens) > Len(MissingComma) THEN 2 ELSE 1)
            /\ ~eoi
            /\ \A k \in DOMAIN errors :
                  errors[k].span.start < Tok(tokens, Len(MissingComma) - 1).span.start)

C14_Witness ==
    /\ pc = "returned"
    /\ tokens = MkTokens(MissingComma \o FnItem)
    /\ program.structs = <<StructPx(tokens)>>
    /\ Len(program.functions) = 1
    /\ Len(errors) = 3

----------------------------------------------------------------------------
(* Coverage of the source by the tokens of lex, stated for SpecLex *)

\* the bytes of the token spans, one span after the other
RECURSIVE SpansConcat(_, _)
SpansConcat(src, toks) ==
    IF toks = <<>> THEN <<>>
    ELSE Slice(src, Head(toks).start, Head(toks).start + Head(toks).len)
            \o SpansConcat(src, Tail(toks))

NotWhitespace(b) == ~IsAsciiWhitespace(b)
\* the source with its ASCII whitespace bytes removed
NonWhitespace(src) == SelectSeq(src, NotWhitespace)

\* byte i (0-based) lies in the span of a token
Covered(toks, i) == \E k \in DOMAIN toks : toks[k].start <= i /\ i < toks[k].start + toks[k].len

\* the tokens lie in the source in order, one after the other, each of one byte at
\* least, and only whitespace lies outside them
SpansInOrder(src, toks) ==
    /\ \A k \in DOMAIN toks :
          /\ toks[k].len >= 1
          /\ toks[k].start >= 0
          /\ toks[k].start + toks[k].len <= Len(src)
    /\ \A k \in 1..(Len(toks) - 1) : toks[k].start + toks[k].len <= toks[k + 1].start
    /\ \A i \in 0..(Len(src) - 1) : ~Covered(toks, i) => IsAsciiWhitespace(ByteAt(src, i))

\* a string literal token with a whitespace byte in its span
StringWithWhitespace(src, toks) ==
    \E k \in DOMAIN toks :
        /\ toks[k].kind.tag = "StringLiteral"
        /\ \E i \in toks[k].start..(toks[k].start + toks[k].len - 1) :
              IsAsciiWhitespace(ByteAt(src, i))

\* C15 as stated: the tokens lex returns lie in the source in order without overlap,
\* each of length 1 at least, only whitespace lies outside them, and their spans put
\* together are the source with its whitespace removed, string literals included.
C15_Coverage ==
    lex_pc = "returned" =>
        /\ SpansInOrder(source, lex_tokens)
        /\ SpansConcat(source, lex_tokens) = NonWhitespace(source)

\* C15 amended: as above, but the spans put together are the source without its
\* whitespace only when no string literal holds whitespace; a string literal keeps
\* the whitespace between its quotes.
C15_CoverageOutsideStrings ==
    lex_pc = "returned" =>
        /\ SpansInOrder(source, lex_tokens)
        /\ ~StringWithWhitespace(source, lex_tokens) =>
              SpansConcat(source, lex_tokens) = NonWhitespace(source)
        /\ StringWithWhitespace(source, lex_tokens) =>
              /\ SpansConcat(source, lex_tokens) # NonWhitespace(source)
              /\ Len(SpansConcat(source, lex_tokens)) > Len(NonWhitespace(source))

C15_Witness ==
    /\ lex_pc = "returned"
    /\ \E k \in DOMAIN lex_tokens : lex_tokens[k].kind.tag = "StringLiteral"
    /\ ~StringWithWhitespace(source, lex_tokens)
    /\ \E i \in 0..(Len(source) - 1) : ~Covered(lex_tokens, i)

----------------------------------------------------------------------------
(* Unknown bytes, stated for SpecLex *)

\* ( ) { } ; , :
PunctuationBytes == {40, 41, 123, 125, 59, 44, 58}

\* the iteration at the head of the loop meets a byte of no token class
AtUnknownByte ==
    /\ lex_pc = "scan"
    /\ LexAt < Len(source)
    /\ ~IsAsciiAlphabetic(LexByte)
    /\ ~IsAsciiDigit(LexByte)
    /\ LexByte # 34
    /\ LexByte \notin PunctuationBytes

CountTag(s, tag) == Cardinality({k \in DOMAIN s : s[k].tag = tag})
CountKind(toks, tag) == Cardinality({k \in DOMAIN toks : toks[k].kind.tag = tag})

\* C16: a byte that is not whitespace, a letter, a digit, `"` or punctuation adds one
\* Unknown token of length 1 and one UnknownToken error with the same one-byte span,
\* and the scan goes on at the next byte; there are always as many UnknownToken errors
\* as Unknown tokens.
C16_UnknownByte ==
    /\ [][AtUnknownByte =>
            /\ lex_tokens' = Append(lex_tokens, [kind |-> [tag |-> "Unknown"], start |-> LexAt, len |-> 1])
            /\ lex_errors' = Append(lex_errors,
                    [tag |-> "UnknownToken", char |-> LexByte, span |-> [start |-> LexAt, len |-> 1]])
            /\ lex_idx' = LexAt + 1
            /\ lex_pc' = "scan"]_vars
    /\ [](CountTag(lex_errors, "UnknownToken") = CountKind(lex_tokens, "Unknown"))

C16_Witness ==
    /\ lex_pc = "returned"
    /\ CountKind(lex_tokens, "Unknown") = 2
    /\ CountTag(lex_errors, "UnknownToken") = 2
    /\ Len(lex_tokens) = 3

----------------------------------------------------------------------------
(* expect! and recover_at_token! on their own: each step is one use of one *)
(* of the macros in a parse function, on the function's `errors` vector.   *)
(* pc is "apply" while the function runs and "none" once a `?` returned    *)
(* None from it.                                                           *)

MaxMacroLen == 3
MaxDiagnostics == 3

MacroKinds == {"SemiColon", "CBrace"}
MacroTokens == {K("SemiColon"), K("CBrace"), Id("a")}

\* the state after a macro returned r
MacroReturn(r) ==
    /\ idx' = r.c.idx
    /\ errors' = r.errs
    /\ recorded' = recorded \o r.c.rec
    /\ stalled' = (stalled \/ r.c.stall)
    /\ eoi' = ~r.ok
    /\ pc' = IF r.ok THEN "apply" ELSE "none"
    /\ UNCHANGED <<tokens, program, panicked, built>>
    /\ UNCHANGED lexvars

ExpectOf(kind) ==
    /\ pc = "apply"
    /\ Len(errors) < MaxDiagnostics
    /\ MacroReturn(Expect(tokens, Context(idx), errors, kind))

RecoverOf(kind) ==
    /\ pc = "apply"
    /\ Len(errors) < MaxDiagnostics
    /\ MacroReturn(RecoverAtToken(tokens, Context(idx), errors, kind))

ExpectStep == \E kind \in MacroKinds : ExpectOf(kind)
RecoverStep == \E kind \in MacroKinds : RecoverOf(kind)

InitMacro ==
    /\ tokens \in {MkTokens(ks) : ks \in SeqsUpTo(MacroTokens, MaxMacroLen)}
    /\ idx \in 0..(Len(tokens) + 1)
    /\ errors = <<>>
    /\ program = [structs |-> <<>>, extern_functions |-> <<>>, functions |-> <<>>]
    /\ pc = "apply"
    /\ recorded = <<>>
    /\ panicked = FALSE
    /\ stalled = FALSE
    /\ eoi = FALSE
    /\ built = <<>>
    /\ source = <<>>
    /\ lex_idx = 0
    /\ lex_tokens = <<>>
    /\ lex_errors = <<>>
    /\ lex_pc = "idle"

NextMacro ==
    \/ ExpectStep
    \/ RecoverStep

SpecMacro == InitMacro /\ [][NextMacro]_vars

\* C17: expect!(kind) on a token of that kind moves the cursor on by one and records
\* nothing; on a token of another kind it records one ExpectedToken(kind, span of that
\* token) and leaves the cursor; at or past the end of the tokens it records nothing,
\* leaves the cursor, and the function returns None.
C17_Expect ==
    [][\A kind \in MacroKinds : ExpectOf(kind) =>
          IF idx >= Len(tokens)
          THEN /\ idx' = idx
               /\ errors' = errors
               /\ recorded' = recorded
               /\ pc' = "none"
          ELSE IF Tok(tokens, idx).kind.tag = kind
          THEN /\ idx' = idx + 1
               /\ errors' = errors
               /\ recorded' = recorded
               /\ pc' = "apply"
          ELSE /\ idx' = idx
               /\ errors' = Append(errors, ExpectedToken(kind, Tok(tokens, idx).span))
               /\ recorded' = Append(recorded, ExpectedToken(kind, Tok(tokens, idx).span))
               /\ pc' = "apply"]_vars

\* expect! met a token of another kind and then the kind it asked for
C17_Witness ==
    /\ pc = "apply"
    /\ idx = 1
    /\ Len(tokens) >= 1
    /\ Len(errors) = 1
    /\ errors[1].span = Tok(tokens, 0).span
    /\ errors[1].kind # Tok(tokens, 0).kind.tag

\* the indices from i on that hold a token of the kind
IndicesOf(toks, i, kind) == {j \in i..(Len(toks) - 1) : Tok(toks, j).kind.tag = kind}
\* the least element of a non-empty set of indices
Least(S) == CHOOSE j \in S : \A k \in S : j <= k
\* one ExpectedToken(kind, span) for each of the tokens i .. j - 1, in order
SkippedFrom(toks, i, j, kind) == [k \in 1..(j - i) |-> ExpectedToken(kind, Tok(toks, i + k - 1).span)]

\* C18: recover_at_token!(kind) from cursor i, with j the first index from i on that
\* holds a token of the kind, leaves the cursor at j + 1 and records one
\* ExpectedToken(kind, span) for each of the j - i tokens before it, in order; when
\* there is no such token it records one for each remaining token and the function
\* returns None.
C18_Recover ==
    [][\A kind \in MacroKinds : RecoverOf(kind) =>
          IF IndicesOf(tokens, idx, kind) # {}
          THEN LET j == Least(IndicesOf(tokens, idx, kind))
               IN  /\ idx' = j + 1
                   /\ errors' = errors \o SkippedFrom(tokens, idx, j, kind)
                   /\ recorded' = recorded \o SkippedFrom(tokens, idx, j, kind)
                   /\ pc' = "apply"
          ELSE /\ idx' = (IF idx > Len(tokens) THEN idx ELSE Len(tokens))
               /\ errors' = errors \o SkippedFrom(tokens, idx, Len(tokens), kind)
               /\ recorded' = recorded \o SkippedFrom(tokens, idx, Len(tokens), kind)
               /\ pc' = "none"]_vars

\* recover_at_token! skipped two tokens and consumed the third
C18_Witness ==
    /\ pc = "apply"
    /\ idx = 3
    /\ Len(errors) = 2
    /\ errors[1].span = Tok(tokens, 0).span
    /\ errors[2].span = Tok(tokens, 1).span
    /\ Tok(tokens, 2).kind.tag = errors[1].kind

----------------------------------------------------------------------------
(* Properties of parse_opaque_struct, stated for Spec *)

\* the item loop is at `opaque struct <name>`
AtOpaqueStruct ==
    /\ pc = "loop"
    /\ Is(tokens, idx, "Opaque")
    /\ Is(tokens, idx + 1, "Struct")
    /\ Is(tokens, idx + 2, "Ident")

\* C19: the step of parse_program on an item `opaque struct <name>` leaves the cursor
\* one past the first `;` at or after the name, with one ExpectedToken(`;`) for each
\* token skipped before it, or takes the end-of-input path when no `;` is left.
C19_OpaqueRecovered ==
    [][AtOpaqueStruct =>
          IF IndicesOf(tokens, idx + 2, "SemiColon") # {}
          THEN LET j == Least(IndicesOf(tokens, idx + 2, "SemiColon"))
               IN  /\ idx' = j + 1
                   /\ pc' = "loop"
                   /\ errors' = errors \o SkippedFrom(tokens, idx + 3, j, "SemiColon")
          ELSE /\ eoi'
               /\ pc' = "returned"]_vars

----------------------------------------------------------------------------
(* The restriction inside conditions, stated for Spec *)

NestedConditionTokens == {MkTokens(p) : p \in NestedConditionPrograms}

\* a struct literal node was built
StructLiteralBuilt ==
    \E k \in DOMAIN built :
        /\ built[k].expr.tag = "Literal"
        /\ built[k].expr.literal.tag = "Struct"

\* C20: inside the condition of `if`, `while` and `for .. in` no struct literal is
\* parsed at any depth (call arguments, array elements, index expressions, prefix and
\* binary operands): every identifier directly before a `{` becomes a Variable of that
\* one token.
C20_NoStructLiteralInCondition ==
    (tokens \in NestedConditionTokens /\ idx > 0) =>
        /\ ~StructLiteralBuilt
        /\ \A i \in Len(FnOpen)..(Len(tokens) - 2) :
              (Is(tokens, i, "Ident") /\ Is(tokens, i + 1, "OBrace")) =>
                  \E k \in DOMAIN built :
                      /\ built[k].expr.tag = "Variable"
                      /\ built[k].lo = i
                      /\ built[k].hi = i + 1

----------------------------------------------------------------------------
(* parse_expression on its own: one step is one call from cursor 0, and    *)
(* the node built last is the expression it returns.                       *)

\* an operand of a comparison: a term, a sum, an assignment
CompareOperands ==
    Operands \cup {<<Int1, K("Plus"), Id("a")>>, <<Id("a"), K("Equal"), Int1>>}

\* `a o1 b o2 c`
CompareChains ==
    { a \o <<K(o1)>> \o b \o <<K(o2)>> \o c :
        a \in CompareOperands, b \in CompareOperands, c \in CompareOperands,
        o1 \in CompareKinds, o2 \in CompareKinds }

\* the right side of an assignment: a term or a sum
AssignedValues == Operands \cup {<<Int1, K("Plus"), Id("a")>>}

\* `x = a`, `x = a = b`, `x = a o b`
AssignmentChains ==
    { x \o <<K("Equal")>> \o a \o rest :
        x \in Operands, a \in AssignedValues,
        rest \in {<<>>} \cup {<<K(o)>> \o b : o \in CompareKinds \cup {"Equal"}, b \in AssignedValues} }

\* what follows the expression: nothing, or the `;` of its statement
Trailers == {<<>>, <<K("SemiColon")>>}

ExpressionInputs ==
    {e \o t : e \in CompareChains \cup AssignmentChains, t \in Trailers}

\* the state after parse_expression returned r
ExpressionReturn(r) ==
    /\ idx' = r.c.idx
    /\ errors' = r.errs
    /\ recorded' = r.c.rec
    /\ built' = r.c.exprs
    /\ stalled' = r.c.stall
    /\ panicked' = r.c.panic
    /\ eoi' = ~r.ok
    /\ pc' = IF r.ok THEN "some" ELSE "none"
    /\ UNCHANGED <<tokens, program>>
    /\ UNCHANGED lexvars

ExpressionStep ==
    /\ pc = "apply"
    /\ \E restriction \in {RestrictionNone, NoStructLiteral} :
          ExpressionReturn(parse_expression(tokens, Context(idx), restriction))

InitExpression ==
    /\ tokens \in {MkTokens(ks) : ks \in ExpressionInputs}
    /\ idx = 0
    /\ errors = <<>>
    /\ program = [structs |-> <<>>, extern_functions |-> <<>>, functions |-> <<>>]
    /\ pc = "apply"
    /\ recorded = <<>>
    /\ panicked = FALSE
    /\ stalled = FALSE
    /\ eoi = FALSE
    /\ built = <<>>
    /\ source = <<>>
    /\ lex_idx = 0
    /\ lex_tokens = <<>>
    /\ lex_errors = <<>>
    /\ lex_pc = "idle"

NextExpression == ExpressionStep

SpecExpression == InitExpression /\ [][NextExpression]_vars

\* the tokens lo .. hi - 1 as the node of an operand: a term, `t + t` or `t = t`
OperandNode(toks, lo, hi) ==
    IF hi - lo = 1 THEN OperandExpr(Tok(toks, lo))
    ELSE IF Tok(toks, lo + 1).kind.tag = "Plus"
         THEN [tag |-> "MathOp", lhs |-> OperandExpr(Tok(toks, lo)),
               rhs |-> OperandExpr(Tok(toks, lo + 2)), op |-> "Addition"]
         ELSE [tag |-> "Assignment", lhs |-> OperandExpr(Tok(toks, lo)),
               rhs |-> OperandExpr(Tok(toks, lo + 2))]

\* the indices of the tokens of one of the kinds
IndicesOfKinds(toks, kinds) == {i \in 0..(Len(toks) - 1) : Tok(toks, i).kind.tag \in kinds}
\* the greatest element of a non-empty set of indices
Greatest(S) == CHOOSE j \in S : \A k \in S : j >= k
\* the index after the last token of the expression
ExpressionEnd(toks) == IF Last(toks).kind.tag = "SemiColon" THEN Len(toks) - 1 ELSE Len(toks)

CompareName(kind) ==
    CASE kind = "EqualEqual" -> "Equality"
      [] kind = "GreaterThan" -> "GreaterThan"
      [] kind = "GreaterThanEqual" -> "GreaterThanEqual"
      [] kind = "LessThan" -> "LessThan"
      [] kind = "LessThanEqual" -> "LessThanEqual"

CompareChainTokens == {MkTokens(e \o t) : e \in CompareChains, t \in Trailers}

\* C21: on `a o1 b o2 c`, with a, b, c operands of the assignment level and o1, o2
\* comparison operators, parse_expression returns CompareOp(a, CompareOp(b, c, o2), o1),
\* leaves the cursor after c and records no diagnostic.
C21_CompareRightAssociative ==
    (pc # "apply" /\ tokens \in CompareChainTokens) =>
        LET p1 == Least(IndicesOfKinds(tokens, CompareKinds))
            p2 == Greatest(IndicesOfKinds(tokens, CompareKinds))
            end == ExpressionEnd(tokens)
        IN  /\ pc = "some"
            /\ idx = end
            /\ errors = <<>>
            /\ recorded = <<>>
            /\ Last(built).expr =
                  [tag |-> "CompareOp",
                   lhs |-> OperandNode(tokens, 0, p1),
                   rhs |-> [tag |-> "CompareOp",
                            lhs |-> OperandNode(tokens, p1 + 1, p2),
                            rhs |-> OperandNode(tokens, p2 + 1, end),
                            op |-> CompareName(Tok(tokens, p2).kind.tag)],
                   op |-> CompareName(Tok(tokens, p1).kind.tag)]

\* `a < 1 == a = 1 ;` was parsed
C21_Witness ==
    /\ pc = "some"
    /\ tokens = MkTokens(<<Id("a"), K("LessThan"), Int1, K("EqualEqual"),
                           Id("a"), K("Equal"), Int1, K("SemiColon")>>)
    /\ idx = 7
    /\ Last(built).expr.rhs.tag = "CompareOp"
    /\ Last(built).expr.rhs.rhs.tag = "Assignment"

AssignmentChainTokens == {MkTokens(e \o t) : e \in AssignmentChains, t \in Trailers}

\* C22: the right side of an assignment is parsed at the additive level and one
\* assignment takes one `=`: on `x = a` followed by a comparison operator and b,
\* parse_expression returns CompareOp(Assignment(x, a), b) with the cursor after b; on
\* `x = a = b` it returns Assignment(x, a) with the cursor on the second `=`; a sum on
\* the right is taken whole.  No diagnostic is recorded.
C22_AssignmentRhs ==
    (pc # "apply" /\ tokens \in AssignmentChainTokens) =>
        LET eqs == IndicesOfKinds(tokens, {"Equal"})
            cmps == IndicesOfKinds(tokens, CompareKinds)
            end == ExpressionEnd(tokens)
            \* the index after the right side of the first `=`
            stop == IF cmps # {} THEN Least(cmps)
                    ELSE IF Cardinality(eqs) = 2 THEN Greatest(eqs)
                    ELSE end
            first == [tag |-> "Assignment",
                      lhs |-> OperandExpr(Tok(tokens, 0)),
                      rhs |-> OperandNode(tokens, 2, stop)]
        IN  /\ pc = "some"
            /\ errors = <<>>
            /\ recorded = <<>>
            /\ IF cmps # {}
               THEN /\ idx = end
                    /\ Last(built).expr =
                          [tag |-> "CompareOp", lhs |-> first,
                           rhs |-> OperandNode(tokens, stop + 1, end),
                           op |-> CompareName(Tok(tokens, stop).kind.tag)]
               ELSE /\ idx = stop
                    /\ Last(built).expr = first

\* `a = 1 == a ;` was parsed into a comparison whose left side is the assignment
C22_Witness ==
    /\ pc = "some"
    /\ tokens = MkTokens(<<Id("a"), K("Equal"), Int1, K("EqualEqual"), Id("a"), K("SemiColon")>>)
    /\ idx = 5
    /\ Last(built).expr.tag = "CompareOp"
    /\ Last(built).expr.lhs.tag = "Assignment"

\* `a = 1 = a ;` was parsed up to the second `=`
C22_SecondEqualWitness ==
    /\ pc = "some"
    /\ tokens = MkTokens(<<Id("a"), K("Equal"), Int1, K("Equal"), Id("a"), K("SemiColon")>>)
    /\ idx = 3
    /\ Last(built).expr.tag = "Assignment"

====
